---- MODULE Spec2Model ----
(***************************************************************************)
(* Model of the DECB volume engine of CoCo-DSK-Filesystem (coco_dsk.py).   *)
(*                                                                         *)
(* The image buffer `data` is the header bytes followed by whole 256-byte  *)
(* sectors.  It is held as [hdr, nsec, sec]: hdr the header bytes, nsec    *)
(* the number of sectors, and sec the sectors that differ from the 0xFF    *)
(* fill (a sector absent from DOMAIN sec is 256 bytes of 0xFF).  A sector  *)
(* is stored in one canonical form, so two buffers are equal exactly when  *)
(* their bytes are equal:                                                  *)
(*   [t |-> "fat", fat]            bytes 0..67 = fat, bytes 68..255 = 0xFF *)
(*   [t |-> "dir", slots]          eight 32-byte directory slots           *)
(*   [t |-> "data", f, k, n]       bytes 256k .. 256k+n-1 of PC file f,    *)
(*                                 then 256-n bytes of 0x00                *)
(* Strings are sequences of character codes.                               *)
(***************************************************************************)
EXTENDS Integers, Sequences, FiniteSets, TLC

\* ------------------------------------------------------------------ bounds
\* operations applied to a volume after it was formatted, under Spec
MaxOps == 2
\* the same under SpecDeep (few inputs, longer runs)
MaxDeepOps == 4
\* the same under SpecFormat (every geometry)
MaxFormatOps == 2
\* the same under SpecRename (rename, view and extract as well)
MaxRenameOps == 3
\* sector reads and writes after a format, under SpecSector
MaxSectorOps == 2
\* operations between two formats, under SpecDetect
MaxDetectOps == 3
\* operations after a mount of an OS-9 image, under SpecOS9
MaxOS9Ops == 2
\* files detokenized one after the other, under SpecDetokenize
MaxDetokenizeOps == 1
\* operations after a format, under SpecChain
MaxChainOps == 3
\* chain walks one after the other, under SpecWalk
MaxWalkOps == 1
\* operations after a format, under SpecFill
MaxFillOps == 3

\* ------------------------------------------------------- program constants
SECTOR_SIZE == 256
GRANULE_SECTORS == 9
GRANULE_SIZE == SECTOR_SIZE * GRANULE_SECTORS
DIR_TRACK == 17
FAT_SECTOR == 2
DIR_START_SECTOR == 3
DIR_END_SECTOR == 11
ENTRY_SIZE == 32
\* number of granules (entries of the FAT)
NUM_GRANULES == 68
\* highest valid granule number
MAX_GRANULE == 67
\* slots of one directory sector
SLOTS_PER_SECTOR == 8
\* the byte 0xFF: free granule, deleted slot, fill
FREE == 255
\* base of the last-granule marker, 0xC0
LAST_MARK == 192
\* highest last-granule marker, 0xC9
LAST_MARK_MAX == 201
\* the characters ' ' and '.'
SPACE == 32
DOT == 46

Min(a, b) == IF a < b THEN a ELSE b

Rep(n, x) == [i \in 1..n |-> x]

\* ----------------------------------------------------------------- strings
\* str.upper() on the characters the inputs use: ASCII and Latin-1 letters
UpperChar(c) ==
    IF (c >= 97 /\ c <= 122) \/ (c >= 224 /\ c <= 254 /\ c # 247)
    THEN c - 32 ELSE c

Upper(s) == [i \in 1..Len(s) |-> UpperChar(s[i])]

\* the characters str.rstrip() removes (ASCII whitespace)
IsSpace(c) == c \in {9, 10, 11, 12, 13, 28, 29, 30, 31, 32}

RECURSIVE RStrip(_)
RStrip(s) ==
    IF s = <<>> THEN s
    ELSE IF IsSpace(s[Len(s)]) THEN RStrip(SubSeq(s, 1, Len(s) - 1))
    ELSE s

\* bytes.decode('ascii', errors='ignore'): bytes >= 0x80 are dropped
DecodeAscii(bs) == SelectSeq(bs, LAMBDA c : c < 128)

\* str.encode('ascii') raises UnicodeEncodeError on a character >= 0x80
CanEncodeAscii(s) == \A i \in 1..Len(s) : s[i] < 128

\* s[:n].ljust(n)
Ljust(s, n) == [i \in 1..n |-> IF i <= Len(s) THEN s[i] ELSE SPACE]

\* position of the last '.', 0 when there is none
LastDot(s) ==
    LET ds == {i \in 1..Len(s) : s[i] = DOT}
    IN IF ds = {} THEN 0 ELSE CHOOSE i \in ds : \A j \in ds : j <= i

\* name, ext = dsk_filename.rsplit('.', 1), or (dsk_filename, '')
SplitName(s) ==
    LET d == LastDot(s)
    IN IF d = 0 THEN <<s, <<>> >>
       ELSE <<SubSeq(s, 1, d - 1), SubSeq(s, d + 1, Len(s))>>

\* ----------------------------------------------------------------- sectors
FillSector == [t |-> "fill"]

\* what a slice taken at or past the end of the buffer yields: b''
EmptySlice == [t |-> "empty"]

FreeFat == Rep(NUM_GRANULES, FREE)

\* a directory slot of 32 bytes of 0xFF
FreshSlot ==
    [name |-> Rep(11, FREE), file_type |-> FREE, ascii_flag |-> FREE,
     first_granule |-> FREE, last_sector_bytes |-> 65535, reserved |-> FREE]

\* the 256 bytes of a FAT sector whose bytes 68..255 are 0xFF
FatSector(ft) ==
    IF ft = FreeFat THEN FillSector ELSE [t |-> "fat", fat |-> ft]

\* the 256 bytes of a directory sector
DirSector(slots) ==
    IF slots = Rep(SLOTS_PER_SECTOR, FreshSlot) THEN FillSector
    ELSE [t |-> "dir", slots |-> slots]

\* fat_sector[:68]
FatBytes(c) ==
    CASE c.t = "fat" -> c.fat
      [] c.t = "fill" -> FreeFat
      [] c.t = "empty" -> <<>>

\* the eight 32-byte entries of a directory sector
SlotsOf(c) ==
    CASE c.t = "dir" -> c.slots
      [] c.t = "fill" -> Rep(SLOTS_PER_SECTOR, FreshSlot)

\* file_data[256k : 256k+256].ljust(256, b'\x00') of a PC file f of len bytes
DataSector(f, len, k) ==
    [t |-> "data", f |-> f, k |-> k, n |-> Min(SECTOR_SIZE, len - SECTOR_SIZE * k)]

\* ------------------------------------------------------------ image buffer
EmptyData == [hdr |-> <<>>, nsec |-> 0, sec |-> <<>>]

DataLen(d) == Len(d.hdr) + SECTOR_SIZE * d.nsec

DefaultHeader ==
    [sectors_per_track |-> 18, side_count |-> 1, sector_size |-> 256,
     first_sector_id |-> 1, sector_attribute |-> 0, header_size |-> 0]

get_sector_offset(hd, track, sector) ==
    hd.header_size + ((track * hd.sectors_per_track) + (sector - 1)) * SECTOR_SIZE

\* the sector of the buffer that starts at a byte offset (offsets computed by
\* get_sector_offset are header_size plus a multiple of 256, and header_size
\* is the length of hdr)
SectorIndex(d, offset) == (offset - Len(d.hdr)) \div SECTOR_SIZE

read_sector(d, hd, track, sector) ==
    LET idx == SectorIndex(d, get_sector_offset(hd, track, sector))
    IN IF idx >= d.nsec THEN EmptySlice
       ELSE IF idx \in DOMAIN d.sec THEN d.sec[idx] ELSE FillSector

\* sec with sector idx holding c (f @@ g is f where f is defined, else g)
PutSector(sec, idx, c) ==
    IF c = FillSector
    THEN [i \in (DOMAIN sec) \ {idx} |-> sec[i]]
    ELSE (idx :> c) @@ sec

\* data_array[offset:offset+256] = data: a slice at or past the end appends
write_sector(d, hd, track, sector, c) ==
    LET idx == SectorIndex(d, get_sector_offset(hd, track, sector))
    IN IF idx >= d.nsec
       THEN [d EXCEPT !.nsec = d.nsec + 1, !.sec = PutSector(d.sec, d.nsec, c)]
       ELSE [d EXCEPT !.sec = PutSector(d.sec, idx, c)]

\* --------------------------------------------------------- FAT and directory
read_fat(d, hd) == FatBytes(read_sector(d, hd, DIR_TRACK, FAT_SECTOR))

\* the slots of the directory, numbered 0..71 in scan order
SlotIds == 0 .. ((DIR_END_SECTOR - DIR_START_SECTOR + 1) * SLOTS_PER_SECTOR - 1)

SlotSector(s) == DIR_START_SECTOR + (s \div SLOTS_PER_SECTOR)

SlotOffset(s) == (s % SLOTS_PER_SECTOR) * ENTRY_SIZE

SlotAt(d, hd, s) ==
    SlotsOf(read_sector(d, hd, DIR_TRACK, SlotSector(s)))[(s % SLOTS_PER_SECTOR) + 1]

\* entry_data[0] not in (0x00, 0xFF)
IsActive(slot) == slot.name[1] \notin {0, FREE}

\* the DirectoryEntry of a 32-byte slot; None is modelled by ParseOk = FALSE
ParseOk(slot) == slot.first_granule <= MAX_GRANULE

parse_directory_entry(slot) ==
    [filename |-> RStrip(DecodeAscii(SubSeq(slot.name, 1, 8))),
     extension |-> RStrip(DecodeAscii(SubSeq(slot.name, 9, 11))),
     file_type |-> slot.file_type,
     ascii_flag |-> slot.ascii_flag,
     first_granule |-> slot.first_granule,
     last_sector_bytes |-> slot.last_sector_bytes]

\* a directory sector past the end of the buffer makes entry_data[0] raise
DirReadable(d, hd) ==
    \A n \in DIR_START_SECTOR..DIR_END_SECTOR :
        read_sector(d, hd, DIR_TRACK, n) # EmptySlice

\* the slots of directory sector n a scan lists: active, and accepted by
\* parse_directory_entry (a sector of 0xFF holds no active slot)
ListedIn(d, hd, n) ==
    LET c == read_sector(d, hd, DIR_TRACK, n)
    IN CASE c.t = "fill" -> {}
         [] c.t = "empty" -> {}
         [] c.t = "dir" ->
              {((n - DIR_START_SECTOR) * SLOTS_PER_SECTOR) + i :
                 i \in {j \in 0..(SLOTS_PER_SECTOR - 1) :
                          IsActive(c.slots[j + 1]) /\ ParseOk(c.slots[j + 1])}}

ListedSlots(d, hd) ==
    UNION {ListedIn(d, hd, n) : n \in DIR_START_SECTOR..DIR_END_SECTOR}

RECURSIVE SortedSeq(_)
SortedSeq(S) ==
    IF S = {} THEN <<>>
    ELSE LET m == CHOOSE x \in S : \A y \in S : x <= y
         IN <<m>> \o SortedSeq(S \ {m})

read_directory(d, hd) ==
    LET ids == SortedSeq(ListedSlots(d, hd))
    IN [i \in 1..Len(ids) |-> parse_directory_entry(SlotAt(d, hd, ids[i]))]

full_name(e) ==
    IF e.extension # <<>> THEN e.filename \o <<DOT>> \o e.extension
    ELSE e.filename

\* the walk of get_granule_chain from granule cur with acc already collected;
\* loops is TRUE when more than 68 granules were collected, which only a
\* cycle of next-pointers does (the while loop then never ends)
RECURSIVE ChainWalk(_, _, _)
ChainWalk(ft, cur, acc) ==
    CASE cur = FREE -> [chain |-> acc, loops |-> FALSE]
      [] cur # FREE /\ Len(acc) > NUM_GRANULES -> [chain |-> acc, loops |-> TRUE]
      [] cur # FREE /\ Len(acc) <= NUM_GRANULES
            /\ ft[cur + 1] >= LAST_MARK /\ ft[cur + 1] <= LAST_MARK_MAX ->
                [chain |-> Append(acc, <<cur, IF ft[cur + 1] % 16 = 0
                                              THEN GRANULE_SECTORS
                                              ELSE ft[cur + 1] % 16>>),
                 loops |-> FALSE]
      [] cur # FREE /\ Len(acc) <= NUM_GRANULES /\ ft[cur + 1] <= MAX_GRANULE ->
                ChainWalk(ft, ft[cur + 1], Append(acc, <<cur, GRANULE_SECTORS>>))
      [] OTHER -> [chain |-> acc, loops |-> FALSE]

get_granule_chain(ft, first_granule) == ChainWalk(ft, first_granule, <<>>).chain

\* the map when track 17 is not skipped
granule_to_track_sector_no_skip(granule) ==
    <<granule \div 2, ((granule % 2) * GRANULE_SECTORS) + 1>>

granule_to_track_sector(granule) ==
    <<IF granule < 34 THEN granule \div 2 ELSE (granule \div 2) + 1,
      ((granule % 2) * GRANULE_SECTORS) + 1>>

\* ------------------------------------------------------------ byte strings
\* A byte string is a sequence of pieces; a piece [t, f, k, n, z] of kind
\* "data" is bytes 256k .. 256k+n-1 of PC file f followed by z bytes of 0x00,
\* a piece of another kind is n bytes read from a sector of that kind.
Piece(c, m) ==
    IF c.t = "data"
    THEN [t |-> "data", f |-> c.f, k |-> c.k, n |-> Min(c.n, m), z |-> m - Min(c.n, m)]
    ELSE [t |-> c.t, f |-> 0, k |-> 0, n |-> m, z |-> 0]

BytesLen(bs) ==
    IF bs = <<>> THEN 0
    ELSE SECTOR_SIZE * (Len(bs) - 1) + bs[Len(bs)].n + bs[Len(bs)].z

\* the bytes of a PC file f of len bytes
FileBytes(f, len) ==
    [i \in 1..((len + SECTOR_SIZE - 1) \div SECTOR_SIZE) |->
        [t |-> "data", f |-> f, k |-> i - 1,
         n |-> Min(SECTOR_SIZE, len - SECTOR_SIZE * (i - 1)), z |-> 0]]

\* sectors_used summed over the elements lo..hi of a chain
RECURSIVE SumRange(_, _, _)
SumRange(chain, lo, hi) ==
    IF lo > hi THEN 0
    ELSE IF lo = hi THEN chain[lo][2]
    ELSE LET mid == (lo + hi) \div 2
         IN SumRange(chain, lo, mid) + SumRange(chain, mid + 1, hi)

SumSectors(chain) == SumRange(chain, 1, Len(chain))

\* actual_size of extract_file, and the size dsk_info computes, for a chain
\* holding total bytes
TrimmedSize(total, last_sector_bytes) ==
    IF last_sector_bytes > 0 /\ total > 0
    THEN (((total \div SECTOR_SIZE) - 1) * SECTOR_SIZE) + last_sector_bytes
    ELSE total

\* the j-th sector (from 0) read along a chain: every granule but the last
\* contributes GRANULE_SECTORS sectors
ChainSector(d, hd, chain, j) ==
    LET ts == granule_to_track_sector(chain[(j \div GRANULE_SECTORS) + 1][1])
    IN read_sector(d, hd, ts[1], ts[2] + (j % GRANULE_SECTORS))

\* every sector of a granule lies inside a buffer of 35 tracks or more, so
\* each read adds SECTOR_SIZE bytes
extract_file(d, hd, ft, entry) ==
    LET chain == get_granule_chain(ft, entry.first_granule)
        total == SumSectors(chain) * SECTOR_SIZE
        \* file_data[:actual_size] keeps at most the bytes read
        size == Min(total, TrimmedSize(total, entry.last_sector_bytes))
        cnt == (size + SECTOR_SIZE - 1) \div SECTOR_SIZE
    IN [i \in 1..cnt |->
          Piece(ChainSector(d, hd, chain, i - 1),
                IF i < cnt THEN SECTOR_SIZE ELSE size - SECTOR_SIZE * (cnt - 1))]

\* index in the listing of the entry copy_to_pc picks, 0 when not found
FindEntry(dir, dsk_filename) ==
    LET hits == {i \in 1..Len(dir) : Upper(full_name(dir[i])) = Upper(dsk_filename)}
    IN IF hits = {} THEN 0 ELSE CHOOSE i \in hits : \A j \in hits : i <= j

\* the size dsk_info shows for an entry
ListedSize(ft, entry) ==
    TrimmedSize(SumSectors(get_granule_chain(ft, entry.first_granule)) * SECTOR_SIZE,
                entry.last_sector_bytes)

FreeCount(ft) == Cardinality({g \in 1..Len(ft) : ft[g] = FREE})

\* the loop of find_free_granules from FAT index i with free collected; it
\* appends before it tests len(free) >= count, so a count of 0 still yields
\* the first free granule
RECURSIVE FreeScan(_, _, _, _)
FreeScan(ft, i, count, free) ==
    IF i >= Len(ft) THEN free
    ELSE IF ft[i + 1] = FREE
    THEN IF Len(free) + 1 >= count THEN Append(free, i)
         ELSE FreeScan(ft, i + 1, count, Append(free, i))
    ELSE FreeScan(ft, i + 1, count, free)

find_free_granules(ft, count) == FreeScan(ft, 0, count, <<>>)

\* the first slot of the directory, free or not
find_free_directory_slot_first(d, hd) == <<DIR_START_SECTOR, 0>>

\* (sector_num, offset) of the first empty slot, <<>> for None
find_free_directory_slot(d, hd) ==
    IF \A s \in SlotIds : IsActive(SlotAt(d, hd, s)) THEN <<>>
    ELSE LET s == CHOOSE x \in SlotIds :
                     /\ ~IsActive(SlotAt(d, hd, x))
                     /\ \A y \in 0..(x - 1) : IsActive(SlotAt(d, hd, y))
         IN <<SlotSector(s), SlotOffset(s)>>

\* -------------------------------------------------------------- operations
\* write_sector of the same content to sectors from..to of the directory track
RECURSIVE WriteFill(_, _, _, _)
WriteFill(d, hd, from, to) ==
    IF from > to THEN d
    ELSE WriteFill(write_sector(d, hd, DIR_TRACK, from, FillSector), hd, from + 1, to)

\* format_disk with total_sectors computed without the sides
format_disk_one_side(tracks, sectors_per_track, sides, add_jvc_header) ==
    LET header_bytes == IF add_jvc_header
                        THEN <<sectors_per_track, sides, 1, 1, 0>> ELSE <<>>
        hd == [sectors_per_track |-> sectors_per_track, side_count |-> sides,
               sector_size |-> SECTOR_SIZE, first_sector_id |-> 1,
               sector_attribute |-> 0, header_size |-> Len(header_bytes)]
        blank == [hdr |-> header_bytes,
                  nsec |-> tracks * sectors_per_track, sec |-> <<>>]
        withFat == write_sector(blank, hd, DIR_TRACK, FAT_SECTOR, FatSector(FreeFat))
    IN [data |-> WriteFill(withFat, hd, DIR_START_SECTOR, DIR_END_SECTOR),
        header |-> hd, fat |-> FreeFat, directory |-> <<>>]

\* the handle format_disk returns; the same bytes are written to the file
format_disk(tracks, sectors_per_track, sides, add_jvc_header) ==
    LET header_bytes == IF add_jvc_header
                        THEN <<sectors_per_track, sides, 1, 1, 0>> ELSE <<>>
        hd == [sectors_per_track |-> sectors_per_track, side_count |-> sides,
               sector_size |-> SECTOR_SIZE, first_sector_id |-> 1,
               sector_attribute |-> 0, header_size |-> Len(header_bytes)]
        blank == [hdr |-> header_bytes,
                  nsec |-> tracks * sides * sectors_per_track, sec |-> <<>>]
        withFat == write_sector(blank, hd, DIR_TRACK, FAT_SECTOR, FatSector(FreeFat))
    IN [data |-> WriteFill(withFat, hd, DIR_START_SECTOR, DIR_END_SECTOR),
        header |-> hd, fat |-> FreeFat, directory |-> <<>>]

RECURSIVE Pow2(_)
Pow2(n) == IF n = 0 THEN 1 ELSE 2 * Pow2(n - 1)

\* header bytes are read only as far as the header reaches; the other fields
\* keep the values hd holds
parse_jvc_header(d, hd) ==
    LET header_size == DataLen(d) % 256
    IN [sectors_per_track |-> IF header_size >= 1 THEN d.hdr[1] ELSE hd.sectors_per_track,
        side_count |-> IF header_size >= 2 THEN d.hdr[2] ELSE hd.side_count,
        sector_size |-> IF header_size >= 3 THEN 128 * Pow2(d.hdr[3]) ELSE hd.sector_size,
        first_sector_id |-> IF header_size >= 4 THEN d.hdr[4] ELSE hd.first_sector_id,
        sector_attribute |-> IF header_size >= 5 THEN d.hdr[5] ELSE hd.sector_attribute,
        header_size |-> header_size]

\* the entries appended before a directory sector past the end raised
PartialDirectory(d, hd) ==
    LET ids == SortedSeq({s \in ListedSlots(d, hd) :
                   \A n \in DIR_START_SECTOR..SlotSector(s) :
                       read_sector(d, hd, DIR_TRACK, n) # EmptySlice})
    IN [i \in 1..Len(ids) |-> parse_directory_entry(SlotAt(d, hd, ids[i]))]

\* mount of a DSKImage whose header is hd on the bytes d of the file
mount(d, hd) ==
    LET nh == parse_jvc_header(d, hd)
    IN IF DirReadable(d, nh)
       THEN [ok |-> TRUE, data |-> d, header |-> nh, fat |-> read_fat(d, nh),
             directory |-> read_directory(d, nh)]
       ELSE [ok |-> FALSE, data |-> d, header |-> nh, fat |-> read_fat(d, nh),
             directory |-> PartialDirectory(d, nh)]

\* sectors_to_write of the i-th granule (from 0) of a file of len bytes
SectorsToWrite(len, i) ==
    LET remaining == len - (i * GRANULE_SIZE)
    IN Min(GRANULE_SECTORS, (remaining + SECTOR_SIZE - 1) \div SECTOR_SIZE)

\* write_sector of the sectors s..(cnt-1) of the i-th granule of the file
RECURSIVE WriteSectors(_, _, _, _, _, _, _, _)
WriteSectors(d, hd, ts, f, len, i, s, cnt) ==
    IF s >= cnt THEN d
    ELSE WriteSectors(write_sector(d, hd, ts[1], ts[2] + s,
                                   DataSector(f, len, (i * GRANULE_SECTORS) + s)),
                      hd, ts, f, len, i, s + 1, cnt)

\* the inner loop for the i-th granule: the sectors written are consecutive
\* in the buffer, so when all of them lie inside it they are placed together
WriteGranule(d, hd, granule_num, f, len, i) ==
    LET ts == granule_to_track_sector(granule_num)
        cnt == SectorsToWrite(len, i)
        base == SectorIndex(d, get_sector_offset(hd, ts[1], ts[2]))
    IN IF cnt <= 0 THEN d
       ELSE IF base + cnt <= d.nsec
       THEN [d EXCEPT !.sec =
                [x \in base..(base + cnt - 1) |->
                    DataSector(f, len, (i * GRANULE_SECTORS) + (x - base))] @@ d.sec]
       ELSE WriteSectors(d, hd, ts, f, len, i, 0, cnt)

\* the buffer after the iterations lo..hi (from 0) of the loop over
\* free_granules; the range is halved and the first half is evaluated before
\* the second is entered, which keeps the evaluation shallow
RECURSIVE WriteRange(_, _, _, _, _, _, _)
WriteRange(d, hd, gs, f, len, lo, hi) ==
    IF lo > hi THEN d
    ELSE IF lo = hi THEN WriteGranule(d, hd, gs[lo + 1], f, len, lo)
    ELSE LET mid == (lo + hi) \div 2
             half == WriteRange(d, hd, gs, f, len, lo, mid)
         IN IF half.nsec < 0 THEN half
            ELSE WriteRange(half, hd, gs, f, len, mid + 1, hi)

\* the buffer after the loop over free_granules
WriteData(d, hd, gs, f, len) == WriteRange(d, hd, gs, f, len, 0, Len(gs) - 1)

\* the in-memory FAT after the loop over free_granules
ChainFat(ft, gs, len) ==
    [g \in 1..Len(ft) |->
        IF \E i \in 1..Len(gs) : gs[i] = g - 1
        THEN LET i == CHOOSE j \in 1..Len(gs) : gs[j] = g - 1
             IN IF i < Len(gs) THEN gs[i + 1]
                ELSE LAST_MARK + SectorsToWrite(len, i - 1)
        ELSE ft[g]]

\* last_sector_bytes without the step that turns 0 into 256
LastSectorBytesNoWrap(len) == len % SECTOR_SIZE

\* last_sector_bytes of a file of len bytes
LastSectorBytes(len) ==
    IF len % SECTOR_SIZE = 0 /\ len > 0 THEN SECTOR_SIZE ELSE len % SECTOR_SIZE

NewEntry(name, ext, file_type, ascii_flag, first_granule, len) ==
    [name |-> name \o ext, file_type |-> file_type, ascii_flag |-> ascii_flag,
     first_granule |-> first_granule, last_sector_bytes |-> LastSectorBytes(len),
     reserved |-> FREE]

\* read the directory sector, replace one slot, write the sector back
PutSlot(d, hd, sector_num, offset, slot) ==
    LET old == SlotsOf(read_sector(d, hd, DIR_TRACK, sector_num))
    IN write_sector(d, hd, DIR_TRACK, sector_num,
                    DirSector([old EXCEPT ![(offset \div ENTRY_SIZE) + 1] = slot]))

\* read the FAT sector, replace bytes 0..67, write the sector back
FlushFat(d, hd, ft) ==
    write_sector(d, hd, DIR_TRACK, FAT_SECTOR, FatSector(ft))

\* upload_from_pc of PC file f (len bytes) on the handle h = [data, header,
\* fat, directory]; why names the place the call ended
upload_from_pc(h, f, len, dsk_filename, file_type, ascii_flag) ==
    LET parts == SplitName(dsk_filename)
        name == Ljust(parts[1], 8)
        ext == Ljust(parts[2], 3)
        granules_needed == (len + GRANULE_SIZE - 1) \div GRANULE_SIZE
        free_granules == find_free_granules(h.fat, granules_needed)
        dir_slot == find_free_directory_slot(h.data, h.header)
        written == WriteData(h.data, h.header, free_granules, f, len)
        newfat == ChainFat(h.fat, free_granules, len)
        none == [ok |-> FALSE, why |-> "", data |-> h.data, fat |-> h.fat,
                 directory |-> h.directory, granules |-> <<>>, slot |-> <<>>]
    IN IF Len(free_granules) < granules_needed
       THEN [none EXCEPT !.why = "space"]
       ELSE IF dir_slot = <<>>
       THEN [none EXCEPT !.why = "dirfull"]
       ELSE IF ~(CanEncodeAscii(name) /\ CanEncodeAscii(ext))
       THEN [none EXCEPT !.why = "encode", !.data = written, !.fat = newfat,
                         !.granules = free_granules]
       ELSE IF free_granules = <<>>
       THEN [none EXCEPT !.why = "index"]
       ELSE LET slot == NewEntry(name, ext, file_type, ascii_flag,
                                 free_granules[1], len)
                withDir == PutSlot(written, h.header, dir_slot[1], dir_slot[2], slot)
                flushed == FlushFat(withDir, h.header, newfat)
            IN [ok |-> TRUE, why |-> "", data |-> flushed, fat |-> newfat,
                directory |-> read_directory(flushed, h.header),
                granules |-> free_granules, slot |-> dir_slot]

\* the slot delete_file finds: first active, parsed slot of that name; -1 if none
FindSlot(d, hd, dsk_filename) ==
    LET hits == {s \in ListedSlots(d, hd) :
                    Upper(full_name(parse_directory_entry(SlotAt(d, hd, s))))
                        = Upper(dsk_filename)}
    IN IF hits = {} THEN -1 ELSE CHOOSE s \in hits : \A x \in hits : s <= x

\* stands for entry_found = None
NoEntry ==
    [filename |-> <<>>, extension |-> <<>>, file_type |-> 0, ascii_flag |-> 0,
     first_granule |-> 0, last_sector_bytes |-> 0]

\* delete_file freeing the first granule of the chain only
delete_file_head_only(h, dsk_filename) ==
    LET s == FindSlot(h.data, h.header, dsk_filename)
        old == SlotAt(h.data, h.header, s)
        chain == get_granule_chain(h.fat, old.first_granule)
        newfat == [g \in 1..Len(h.fat) |->
                      IF chain # <<>> /\ chain[1][1] = g - 1
                      THEN FREE ELSE h.fat[g]]
        flushed == FlushFat(h.data, h.header, newfat)
        marked == PutSlot(flushed, h.header, SlotSector(s), SlotOffset(s),
                          [old EXCEPT !.name[1] = FREE])
    IN IF s = -1
       THEN [ok |-> FALSE, data |-> h.data, fat |-> h.fat,
             directory |-> h.directory, chain |-> <<>>, slot |-> <<>>,
             deleted |-> NoEntry]
       ELSE [ok |-> TRUE, data |-> marked, fat |-> newfat,
             directory |-> read_directory(marked, h.header),
             chain |-> chain, slot |-> <<SlotSector(s), SlotOffset(s)>>,
             deleted |-> parse_directory_entry(old)]

delete_file(h, dsk_filename) ==
    LET s == FindSlot(h.data, h.header, dsk_filename)
        old == SlotAt(h.data, h.header, s)
        chain == get_granule_chain(h.fat, old.first_granule)
        newfat == [g \in 1..Len(h.fat) |->
                      IF \E i \in 1..Len(chain) : chain[i][1] = g - 1
                      THEN FREE ELSE h.fat[g]]
        flushed == FlushFat(h.data, h.header, newfat)
        marked == PutSlot(flushed, h.header, SlotSector(s), SlotOffset(s),
                          [old EXCEPT !.name[1] = FREE])
    IN IF s = -1
       THEN [ok |-> FALSE, data |-> h.data, fat |-> h.fat,
             directory |-> h.directory, chain |-> <<>>, slot |-> <<>>,
             deleted |-> NoEntry]
       ELSE [ok |-> TRUE, data |-> marked, fat |-> newfat,
             directory |-> read_directory(marked, h.header),
             chain |-> chain, slot |-> <<SlotSector(s), SlotOffset(s)>>,
             deleted |-> parse_directory_entry(old)]

\* copy_to_pc: the bytes written to the PC file, found by name in the listing
copy_to_pc(h, dsk_filename) ==
    LET i == FindEntry(h.directory, dsk_filename)
    IN IF i = 0 THEN [ok |-> FALSE, bytes |-> <<>>]
       ELSE [ok |-> TRUE,
             bytes |-> extract_file(h.data, h.header, h.fat, h.directory[i])]

\* index in the listing of the entry rename_file and view_file pick: the first
\* whose name equals the requested one character for character, 0 when none
FindExact(dir, name) ==
    LET hits == {i \in 1..Len(dir) : full_name(dir[i]) = name}
    IN IF hits = {} THEN 0 ELSE CHOOSE i \in hits : \A j \in hits : i <= j

\* the slot rename_file rewrites: the first active, parsed slot that holds
\* first_granule; -1 if none
RenameSlot(d, hd, first_granule) ==
    LET hits == {s \in ListedSlots(d, hd) :
                    SlotAt(d, hd, s).first_granule = first_granule}
    IN IF hits = {} THEN -1 ELSE CHOOSE s \in hits : \A x \in hits : s <= x

\* new_filename[:8].ljust(8).upper() followed by new_ext[:3].ljust(3).upper()
RenamedBytes(new_name) ==
    LET parts == SplitName(new_name)
    IN Upper(Ljust(parts[1], 8)) \o Upper(Ljust(parts[2], 3))

\* rename_file rewriting the type byte of the slot as well
rename_file_clear_type(h, old_name, new_name) ==
    LET i == FindExact(h.directory, old_name)
        s == RenameSlot(h.data, h.header, h.directory[i].first_granule)
        last_read == IF s = -1 THEN DIR_END_SECTOR ELSE SlotSector(s)
        old == SlotAt(h.data, h.header, s)
        written == PutSlot(h.data, h.header, SlotSector(s), SlotOffset(s),
                           [old EXCEPT !.name = RenamedBytes(new_name),
                                       !.file_type = 0])
        Failed(why) == [ok |-> FALSE, why |-> why, data |-> h.data, slot |-> <<>>]
    IN CASE i = 0 -> Failed("notfound")
         [] i # 0 /\ \E n \in DIR_START_SECTOR..last_read :
                        read_sector(h.data, h.header, DIR_TRACK, n) = EmptySlice ->
              Failed("index")
         [] OTHER ->
              IF s = -1 THEN Failed("noslot")
              ELSE IF ~CanEncodeAscii(RenamedBytes(new_name)) THEN Failed("encode")
              ELSE [ok |-> TRUE, why |-> "", data |-> written,
                    slot |-> <<SlotSector(s), SlotOffset(s)>>]

\* rename_file on the handle h = [data, header, fat, directory]: the entry is
\* looked up in the listing the handle holds, the slot by its first granule;
\* fat and directory of the handle are not assigned
rename_file(h, old_name, new_name) ==
    LET i == FindExact(h.directory, old_name)
        s == RenameSlot(h.data, h.header, h.directory[i].first_granule)
        last_read == IF s = -1 THEN DIR_END_SECTOR ELSE SlotSector(s)
        old == SlotAt(h.data, h.header, s)
        written == PutSlot(h.data, h.header, SlotSector(s), SlotOffset(s),
                           [old EXCEPT !.name = RenamedBytes(new_name)])
        Failed(why) == [ok |-> FALSE, why |-> why, data |-> h.data, slot |-> <<>>]
    IN CASE i = 0 -> Failed("notfound")
         [] i # 0 /\ \E n \in DIR_START_SECTOR..last_read :
                        read_sector(h.data, h.header, DIR_TRACK, n) = EmptySlice ->
              Failed("index")
         [] OTHER ->
              IF s = -1 THEN Failed("noslot")
              ELSE IF ~CanEncodeAscii(RenamedBytes(new_name)) THEN Failed("encode")
              ELSE [ok |-> TRUE, why |-> "", data |-> written,
                    slot |-> <<SlotSector(s), SlotOffset(s)>>]

\* view_file of a DSK file: the bytes shown, found by name in the listing
view_file(h, filename) ==
    LET i == FindExact(h.directory, filename)
    IN IF i = 0 THEN [ok |-> FALSE, bytes |-> <<>>]
       ELSE [ok |-> TRUE,
             bytes |-> extract_file(h.data, h.header, h.fat, h.directory[i])]

\* ------------------------------------------------------------------ inputs
\* "A.B", "a.b", "C.D", and "\xC9.B" (a name str.encode('ascii') rejects)
NameUpper == <<65, 46, 66>>
NameLower == <<97, 46, 98>>
NameOther == <<67, 46, 68>>
NameBad == <<201, 46, 66>>

\* "e.f", a new name for rename_file
NameNew == <<101, 46, 102>>

\* PC files: file f holds FileLen(f) bytes; distinct files hold distinct bytes
FileLen(f) ==
    CASE f = 1 -> 5
      [] f = 2 -> GRANULE_SIZE
      [] f = 3 -> GRANULE_SIZE + 1
      [] f = 4 -> 5000
      [] f = 5 -> 0
      [] f = 6 -> 67 * GRANULE_SIZE
      [] f = 7 -> SECTOR_SIZE
      [] f = 8 -> NUM_GRANULES * GRANULE_SIZE

\* FATs as mount loads them from any image: entries 0, 1 and 2 hold a
\* pointer to one of these three granules, a terminal marker, the free mark
\* or a value that is none of these
Tables ==
    {<<a, b, c>> \o Rep(NUM_GRANULES - 3, FREE) :
        a \in {0, 1, 2, 192, 195, 255, 100},
        b \in {0, 1, 2, 192, 195, 255, 100},
        c \in {0, 1, 2, 192, 195, 255, 100}}

\* (file_type, ascii_flag): ML binary, TEXT ASCII
TypeML == <<2, 0>>
TypeText == <<3, 255>>

\* (tracks, sides, add_jvc_header)
AllGeometries == {35, 40, 80} \X {1, 2} \X {TRUE, FALSE}

\* ------------------------------------------------------ bytes of the image
\* byte i (from 0) of PC file f: file 7 holds an OS-9 identification sector
\* for a volume of 630 sectors (dd_tot 0x000276, dd_tks 35, dd_map 79,
\* dd_bit 1, dd_dir 2, dd_fmt 3, dd_spt 18, an empty name), every other
\* file a letter of its own
FileByte(f, i) ==
    IF f # 7 THEN 64 + f
    ELSE CASE i = 1 -> 2
           [] i = 2 -> 118
           [] i = 3 -> 35
           [] i = 5 -> 79
           [] i = 7 -> 1
           [] i = 10 -> 2
           [] i = 16 -> 3
           [] i = 18 -> 18
           [] OTHER -> 0

\* byte j (from 0) of a 32-byte directory slot
SlotByte(slot, j) ==
    CASE j < 11 -> slot.name[j + 1]
      [] j = 11 -> slot.file_type
      [] j = 12 -> slot.ascii_flag
      [] j = 13 -> slot.first_granule
      [] j = 14 -> slot.last_sector_bytes \div 256
      [] j = 15 -> slot.last_sector_bytes % 256
      [] OTHER -> slot.reserved

\* byte i (from 0) of the 256 bytes of a sector
SectorByte(c, i) ==
    CASE c.t = "fill" -> FREE
      [] c.t = "data" ->
           IF i < c.n THEN FileByte(c.f, (SECTOR_SIZE * c.k) + i) ELSE 0
      [] c.t = "fat" -> IF i < NUM_GRANULES THEN c.fat[i + 1] ELSE FREE
      [] c.t = "dir" -> SlotByte(c.slots[(i \div ENTRY_SIZE) + 1], i % ENTRY_SIZE)

\* byte p (from 0) of the buffer, p < DataLen(d)
ByteAt(d, p) ==
    IF p < Len(d.hdr) THEN d.hdr[p + 1]
    ELSE LET q == p - Len(d.hdr)
             idx == q \div SECTOR_SIZE
         IN SectorByte(IF idx \in DOMAIN d.sec THEN d.sec[idx] ELSE FillSector,
                       q % SECTOR_SIZE)

\* data[lo:hi] of the buffer as a sequence of bytes
ImageBytes(d, lo, hi) ==
    [i \in 1..(Min(hi, DataLen(d)) - lo) |-> ByteAt(d, lo + i - 1)]

\* ------------------------------------------------------------ OS-9 (RBF)
\* the number a run of bytes holds, most significant byte first
RECURSIVE BigEndian(_)
BigEndian(bs) ==
    IF bs = <<>> THEN 0
    ELSE (256 * BigEndian(SubSeq(bs, 1, Len(bs) - 1))) + bs[Len(bs)]

\* bs[lo:hi] of a sequence of bytes (positions from 0, cut at the end)
Slice(bs, lo, hi) == SubSeq(bs, lo + 1, Min(hi, Len(bs)))

\* is_os9_disk on a buffer of len bytes whose first 256 bytes are lsn0
is_os9_disk(len, lsn0) ==
    IF len < SECTOR_SIZE THEN FALSE
    ELSE LET dd_tot == BigEndian(Slice(lsn0, 0, 3))
             dd_map == BigEndian(Slice(lsn0, 4, 6))
             dd_bit == BigEndian(Slice(lsn0, 6, 8))
             dd_dir == BigEndian(Slice(lsn0, 8, 11))
             dd_spt == BigEndian(Slice(lsn0, 17, 19))
             expected_sectors == len \div SECTOR_SIZE
             disk_name == Slice(lsn0, 31, 63)
         IN /\ ~(/\ dd_tot # expected_sectors
                 /\ (dd_tot - expected_sectors > 10 \/ expected_sectors - dd_tot > 10))
            /\ ~(dd_spt < 1 \/ dd_spt > 255)
            /\ dd_bit \in {1, 2, 4, 8, 16, 32, 64}
            /\ ~(dd_map < 1 \/ dd_map > 2048)
            /\ ~(dd_dir < 1 \/ dd_dir >= dd_tot)
            /\ \A i \in 1..Len(disk_name) :
                  ~(disk_name[i] # 0 /\ (disk_name[i] < 32 \/ disk_name[i] > 126))

\* OS9DiskDescriptor()
OS9DiskDescriptor ==
    [dd_tot |-> 0, dd_tks |-> 0, dd_map |-> 0, dd_bit |-> 0, dd_dir |-> 0,
     dd_own |-> 0, dd_att |-> 0, dd_dsk |-> 0, dd_fmt |-> 0, dd_spt |-> 0,
     dd_res |-> 0, dd_bt |-> 0, dd_bsz |-> 0, dd_dat |-> <<>>, dd_nam |-> <<>>,
     dd_opt |-> 0]

\* OS9Image.__init__
NewOS9Image ==
    [data |-> <<>>, descriptor |-> OS9DiskDescriptor, allocation_map |-> <<>>,
     root_dir_entries |-> <<>>]

\* str.rstrip('\x00')
RECURSIVE RStripNul(_)
RStripNul(s) ==
    IF s = <<>> THEN s
    ELSE IF s[Len(s)] = 0 THEN RStripNul(SubSeq(s, 1, Len(s) - 1))
    ELSE s

\* _parse_disk_descriptor: False, and the descriptor left as it was, on a
\* buffer shorter than a sector
parse_disk_descriptor(o) ==
    LET lsn0 == Slice(o.data, 0, SECTOR_SIZE)
    IN IF Len(o.data) < SECTOR_SIZE
       THEN [ok |-> FALSE, descriptor |-> o.descriptor]
       ELSE [ok |-> TRUE,
             descriptor |->
                [dd_tot |-> BigEndian(Slice(lsn0, 0, 3)),
                 dd_tks |-> lsn0[4],
                 dd_map |-> BigEndian(Slice(lsn0, 4, 6)),
                 dd_bit |-> BigEndian(Slice(lsn0, 6, 8)),
                 dd_dir |-> BigEndian(Slice(lsn0, 8, 11)),
                 dd_own |-> BigEndian(Slice(lsn0, 11, 13)),
                 dd_att |-> lsn0[14],
                 dd_dsk |-> BigEndian(Slice(lsn0, 14, 16)),
                 dd_fmt |-> lsn0[17],
                 dd_spt |-> BigEndian(Slice(lsn0, 17, 19)),
                 dd_res |-> BigEndian(Slice(lsn0, 19, 21)),
                 dd_bt |-> BigEndian(Slice(lsn0, 21, 24)),
                 dd_bsz |-> BigEndian(Slice(lsn0, 24, 26)),
                 dd_dat |-> Slice(lsn0, 26, 31),
                 dd_nam |-> RStripNul(DecodeAscii(Slice(lsn0, 31, 63))),
                 dd_opt |-> lsn0[64]]]

\* _read_lsn: ValueError (ok = FALSE) outside 0..dd_tot-1, else the slice
read_lsn(o, lsn) ==
    IF lsn < 0 \/ lsn >= o.descriptor.dd_tot
    THEN [ok |-> FALSE, bytes |-> <<>>]
    ELSE [ok |-> TRUE,
          bytes |-> Slice(o.data, lsn * SECTOR_SIZE, (lsn * SECTOR_SIZE) + SECTOR_SIZE)]

\* the loop of _read_allocation_map from sector lsn on, with acc collected
RECURSIVE ReadMap(_, _, _, _)
ReadMap(o, lsn, map_bytes_needed, acc) ==
    LET r == read_lsn(o, lsn)
        bytes_to_copy == Min(SECTOR_SIZE, map_bytes_needed)
    IN CASE map_bytes_needed <= 0 -> [ok |-> TRUE, allocation_map |-> acc]
         [] map_bytes_needed > 0 /\ ~r.ok -> [ok |-> FALSE, allocation_map |-> acc]
         [] map_bytes_needed > 0 /\ r.ok ->
              ReadMap(o, lsn + 1, map_bytes_needed - bytes_to_copy,
                      acc \o Slice(r.bytes, 0, bytes_to_copy))

read_allocation_map(o) == ReadMap(o, 1, o.descriptor.dd_map, <<>>)

\* _is_cluster_allocated
is_cluster_allocated(o, cluster_num) ==
    LET byte_index == cluster_num \div 8
        bit_index == 7 - (cluster_num % 8)
    IN IF byte_index >= Len(o.allocation_map) THEN TRUE
       ELSE (o.allocation_map[byte_index + 1] \div Pow2(bit_index)) % 2 = 1

\* _get_free_cluster_count: ZeroDivisionError (ok = FALSE) when dd_bit is 0
get_free_cluster_count(o) ==
    IF o.descriptor.dd_bit = 0 THEN [ok |-> FALSE, count |-> 0]
    ELSE [ok |-> TRUE,
          count |-> Cardinality(
              {c \in 0..((o.descriptor.dd_tot \div o.descriptor.dd_bit) - 1) :
                  ~is_cluster_allocated(o, c)})]

\* OS9Image._parse_directory_entry of 32 bytes; None is ok = FALSE
os9_parse_directory_entry(bs) ==
    LET marks == {i \in 0..27 : bs[i + 1] >= 128}
        first == CHOOSE i \in marks : \A j \in marks : i <= j
        name_end == IF marks = {} THEN 28 ELSE first + 1
        filename_bytes ==
            [i \in 1..28 |-> IF marks # {} /\ i = first + 1 THEN bs[i] - 128
                             ELSE bs[i]]
        filename == RStripNul(DecodeAscii(SubSeq(filename_bytes, 1, name_end)))
        entry == [dir_nm |-> filename, dir_at |-> bs[29],
                  dir_fd |-> BigEndian(SubSeq(bs, 30, 32))]
    IN IF Len(bs) # 32 \/ bs[1] = 0 \/ filename \in {<<DOT>>, <<DOT, DOT>>}
       THEN [ok |-> FALSE, entry |-> entry]
       ELSE [ok |-> TRUE, entry |-> entry]

\* _read_file_descriptor; None (ok = FALSE) when the sector is out of range
\* or too short for a byte that is read.  The segment list ends at the first
\* 5-byte entry whose count is 0, or after 48 entries
read_file_descriptor(o, fd_lsn) ==
    LET r == read_lsn(o, fd_lsn)
        fd_sector == r.bytes
        Avail(k) == 16 + (5 * k) + 4 < Len(fd_sector)
        SegLsn(k) == BigEndian(Slice(fd_sector, 16 + (5 * k), 19 + (5 * k)))
        SegCount(k) == BigEndian(Slice(fd_sector, 19 + (5 * k), 21 + (5 * k)))
        stops == {k \in 0..47 : ~Avail(k) \/ SegCount(k) = 0}
        n == IF stops = {} THEN 48 ELSE CHOOSE k \in stops : \A j \in stops : k <= j
        none == [fd_att |-> 0, fd_own |-> 0, fd_dat |-> <<>>, fd_lnk |-> 0,
                 fd_siz |-> 0, fd_dcr |-> <<>>, fd_seg |-> <<>>]
    IN IF ~r.ok \/ Len(fd_sector) < 13 \/ (n < 48 /\ ~Avail(n))
       THEN [ok |-> FALSE, fd |-> none]
       ELSE [ok |-> TRUE,
             fd |-> [fd_att |-> fd_sector[1],
                     fd_own |-> BigEndian(Slice(fd_sector, 1, 3)),
                     fd_dat |-> Slice(fd_sector, 3, 8),
                     fd_lnk |-> fd_sector[9],
                     fd_siz |-> BigEndian(Slice(fd_sector, 9, 13)),
                     fd_dcr |-> Slice(fd_sector, 13, 16),
                     fd_seg |-> [k \in 1..n |-> <<SegLsn(k - 1), SegCount(k - 1)>>]]]

\* the sectors lsn..lsn+count-1 one after the other (all in range)
RECURSIVE ReadRun(_, _, _)
ReadRun(o, lsn, count) ==
    IF count <= 0 THEN <<>>
    ELSE read_lsn(o, lsn).bytes \o ReadRun(o, lsn + 1, count - 1)

\* the sectors of the segments k.. of a segment list
RECURSIVE ReadSegments(_, _, _)
ReadSegments(o, fd_seg, k) ==
    IF k > Len(fd_seg) THEN <<>>
    ELSE ReadRun(o, fd_seg[k][1], fd_seg[k][2]) \o ReadSegments(o, fd_seg, k + 1)

\* _read_file_data: ValueError (ok = FALSE) when a sector of a segment is
\* out of range; the bytes are cut to fd_siz when fd_siz > 0
read_file_data(o, fd) ==
    IF \E k \in 1..Len(fd.fd_seg) :
          /\ fd.fd_seg[k][2] > 0
          /\ ~read_lsn(o, fd.fd_seg[k][1] + fd.fd_seg[k][2] - 1).ok
    THEN [ok |-> FALSE, bytes |-> <<>>]
    ELSE [ok |-> TRUE,
          bytes |-> IF fd.fd_siz > 0
                    THEN Slice(ReadSegments(o, fd.fd_seg, 1), 0, fd.fd_siz)
                    ELSE ReadSegments(o, fd.fd_seg, 1)]

\* the entries _read_root_directory parses from dir_data at offset.. on
RECURSIVE ParseEntries(_, _)
ParseEntries(dir_data, offset) ==
    LET e == os9_parse_directory_entry(Slice(dir_data, offset, offset + 32))
    IN CASE offset + 32 > Len(dir_data) -> <<>>
         [] offset + 32 <= Len(dir_data) /\ e.ok ->
              <<e.entry>> \o ParseEntries(dir_data, offset + 32)
         [] offset + 32 <= Len(dir_data) /\ ~e.ok ->
              ParseEntries(dir_data, offset + 32)

\* _read_root_directory: no entries when the root descriptor cannot be read;
\* ok = FALSE when _read_file_data raises
read_root_directory(o) ==
    LET root_fd == read_file_descriptor(o, o.descriptor.dd_dir)
        dir_data == read_file_data(o, root_fd.fd)
    IN IF ~root_fd.ok THEN [ok |-> TRUE, root_dir_entries |-> <<>>]
       ELSE IF ~dir_data.ok THEN [ok |-> FALSE, root_dir_entries |-> <<>>]
       ELSE [ok |-> TRUE, root_dir_entries |-> ParseEntries(dir_data.bytes, 0)]

\* OS9Image.mount on the object o with the bytes of the image file: what
\* was assigned before a failure stays assigned
os9_mount(o, bytes) ==
    LET read == [o EXCEPT !.data = bytes]
        d == parse_disk_descriptor(read)
        parsed == [read EXCEPT !.descriptor = d.descriptor]
        m == read_allocation_map(parsed)
        mapped == [parsed EXCEPT !.allocation_map = m.allocation_map]
        r == read_root_directory(mapped)
    IN IF ~d.ok THEN [ok |-> FALSE, self |-> read]
       ELSE IF ~m.ok THEN [ok |-> FALSE, self |-> mapped]
       ELSE [ok |-> r.ok,
             self |-> [mapped EXCEPT !.root_dir_entries = r.root_dir_entries]]

\* index in root_dir_entries of the entry extract_file picks, 0 when none
FindRootEntry(o, filename) ==
    LET hits == {i \in 1..Len(o.root_dir_entries) :
                    Upper(o.root_dir_entries[i].dir_nm) = Upper(filename)}
    IN IF hits = {} THEN 0 ELSE CHOOSE i \in hits : \A j \in hits : i <= j

\* OS9Image.extract_file that extracts directories as well
os9_extract_file_any(o, filename, output) ==
    LET i == FindRootEntry(o, filename)
        fd == read_file_descriptor(o, o.root_dir_entries[i].dir_fd)
        file_data == read_file_data(o, fd.fd)
        Failed(why) == [ok |-> FALSE, why |-> why, out |-> output, self |-> o]
    IN CASE i = 0 -> Failed("notfound")
         [] i # 0 /\ ~fd.ok -> Failed("descriptor")
         [] i # 0 /\ fd.ok /\ ~file_data.ok -> Failed("range")
         [] OTHER -> [ok |-> TRUE, why |-> "", out |-> <<file_data.bytes>>,
                      self |-> o]

\* OS9Image.extract_file(filename, output_path) on the object o, output the
\* PC file before the call: the outcome, the PC file and the object after it
os9_extract_file(o, filename, output) ==
    LET i == FindRootEntry(o, filename)
        fd == read_file_descriptor(o, o.root_dir_entries[i].dir_fd)
        file_data == read_file_data(o, fd.fd)
        Failed(why) == [ok |-> FALSE, why |-> why, out |-> output, self |-> o]
    IN CASE i = 0 -> Failed("notfound")
         [] i # 0 /\ ~fd.ok -> Failed("descriptor")
         [] i # 0 /\ fd.ok /\ fd.fd.fd_att >= 128 -> Failed("directory")
         [] i # 0 /\ fd.ok /\ fd.fd.fd_att < 128 /\ ~file_data.ok -> Failed("range")
         [] OTHER -> [ok |-> TRUE, why |-> "", out |-> <<file_data.bytes>>,
                      self |-> o]

\* OS9Image.list_files keeping only the entries it could print
os9_list_files_pruning(o, show_details) ==
    LET Row(e) ==
            LET fd == read_file_descriptor(o, e.dir_fd)
            IN IF ~show_details THEN <<e.dir_nm, e.dir_fd, e.dir_at>>
               ELSE IF ~fd.ok THEN <<e.dir_nm>>
               ELSE <<e.dir_nm, fd.fd.fd_att >= 128, fd.fd.fd_siz>>
        free == get_free_cluster_count(o)
        cut == [o EXCEPT !.allocation_map = <<>>]
    IN IF o.root_dir_entries = <<>> THEN [ok |-> TRUE, rows |-> <<>>, free |-> 0,
                                          self |-> cut]
       ELSE [ok |-> free.ok,
             rows |-> [i \in 1..Len(o.root_dir_entries) |-> Row(o.root_dir_entries[i])],
             free |-> free.count, self |-> cut]

\* OS9Image.list_files(show_details): the rows printed, the free clusters
\* printed after them, and the object after the call; ok = FALSE when
\* _get_free_cluster_count raises
os9_list_files(o, show_details) ==
    LET Row(e) ==
            LET fd == read_file_descriptor(o, e.dir_fd)
            IN IF ~show_details THEN <<e.dir_nm, e.dir_fd, e.dir_at>>
               ELSE IF ~fd.ok THEN <<e.dir_nm>>
               ELSE <<e.dir_nm, fd.fd.fd_att >= 128, fd.fd.fd_siz>>
        free == get_free_cluster_count(o)
    IN IF o.root_dir_entries = <<>> THEN [ok |-> TRUE, rows |-> <<>>, free |-> 0,
                                          self |-> o]
       ELSE [ok |-> free.ok,
             rows |-> [i \in 1..Len(o.root_dir_entries) |-> Row(o.root_dir_entries[i])],
             free |-> free.count, self |-> o]

\* OS9Image.show_disk_info: the capacity and cluster numbers printed
show_disk_info(o) ==
    LET free == get_free_cluster_count(o)
    IN [ok |-> free.ok,
        total_bytes |-> o.descriptor.dd_tot * SECTOR_SIZE,
        free |-> free.count,
        self |-> o]

\* --------------------------------------------------------- OS-9 inputs
\* bs followed by zeros up to n bytes
Pad(bs, n) == bs \o Rep(n - Len(bs), 0)

\* an identification sector: 10 sectors, a map of 2 bytes, clusters of
\* dd_bit sectors, the root descriptor at LSN 2, 18 sectors a track, "Os9"
IdSector(dd_bit) ==
    Pad(<<0, 0, 10, 1, 0, 2, 0, dd_bit, 0, 0, 2, 0, 0, 0, 18, 52, 3, 0, 18,
          0, 0, 0, 0, 0, 0, 0, 85, 1, 2, 3, 4, 79, 115, 57>>, SECTOR_SIZE)

\* a file descriptor sector
FdSector(fd_att, fd_siz, segs) ==
    Pad(<<fd_att, 0, 0, 85, 1, 2, 3, 4, 1,
          fd_siz \div 16777216, (fd_siz \div 65536) % 256,
          (fd_siz \div 256) % 256, fd_siz % 256, 85, 1, 2>> \o segs, SECTOR_SIZE)

\* a directory entry: the name with bit 7 set in its last byte, dir_at, dir_fd
DirEntry(name, dir_at, dir_fd) ==
    Pad([i \in 1..Len(name) |-> IF i = Len(name) THEN name[i] + 128 ELSE name[i]],
        28) \o <<dir_at, 0, 0, dir_fd>>

\* "Hello", "SUB", "EMPTY", "BAD", "LOST"
NameHello == <<72, 101, 108, 108, 111>>
NameSub == <<83, 85, 66>>
NameEmpty == <<69, 77, 80, 84, 89>>
NameRange == <<66, 65, 68>>
NameLost == <<76, 79, 83, 84>>

\* "hello" and "NONE", asked for but not stored
NameHelloLower == <<104, 101, 108, 108, 111>>
NameNone == <<78, 79, 78, 69>>

\* a volume of 10 sectors: the root directory (LSN 2, data in LSN 3) holds
\* "..", ".", Hello (300 bytes in LSN 5 and 9), SUB (a directory) and EMPTY
\* (0 bytes with LSN 9 allocated)
ImageGood ==
    IdSector(1)
    \o Pad(<<255, 192>>, SECTOR_SIZE)
    \o FdSector(191, 160, <<0, 0, 3, 0, 1>>)
    \o Pad(DirEntry(<<DOT, DOT>>, 191, 2) \o DirEntry(<<DOT>>, 191, 2)
           \o DirEntry(NameHello, 11, 4) \o DirEntry(NameSub, 191, 6)
           \o DirEntry(NameEmpty, 3, 8), SECTOR_SIZE)
    \o FdSector(11, 300, <<0, 0, 5, 0, 1, 0, 0, 9, 0, 1>>)
    \o Rep(SECTOR_SIZE, 104)
    \o FdSector(191, 64, <<0, 0, 7, 0, 1>>)
    \o Pad(DirEntry(<<DOT, DOT>>, 191, 2) \o DirEntry(<<DOT>>, 191, 6), SECTOR_SIZE)
    \o FdSector(3, 0, <<0, 0, 9, 0, 1>>)
    \o Rep(SECTOR_SIZE, 119)

\* a volume whose dd_bit is 0 and whose root directory holds Hello, BAD (a
\* segment at LSN 20, past the volume) and LOST (descriptor at LSN 50)
ImageOdd ==
    IdSector(0)
    \o Pad(<<255, 192>>, SECTOR_SIZE)
    \o FdSector(191, 96, <<0, 0, 3, 0, 1>>)
    \o Pad(DirEntry(NameHello, 11, 4) \o DirEntry(NameRange, 3, 6)
           \o DirEntry(NameLost, 3, 50), SECTOR_SIZE)
    \o FdSector(11, 300, <<0, 0, 5, 0, 1, 0, 0, 9, 0, 1>>)
    \o Rep(SECTOR_SIZE, 104)
    \o FdSector(3, 10, <<0, 0, 20, 0, 1>>)
    \o Rep(3 * SECTOR_SIZE, 119)

\* a file too short to hold an identification sector
ImageShort == Rep(100, 0)

\* file descriptors handed to _read_file_data
Descriptor(fd_att, fd_siz, fd_seg) ==
    [fd_att |-> fd_att, fd_own |-> 0, fd_dat |-> <<85, 1, 2, 3, 4>>, fd_lnk |-> 1,
     fd_siz |-> fd_siz, fd_dcr |-> <<85, 1, 2>>, fd_seg |-> fd_seg]

SegmentLists ==
    {<<>>, << <<5, 1>> >>, << <<5, 1>>, <<9, 1>> >>, << <<9, 1>>, <<4, 2>> >>,
     << <<9, 2>> >>}

\* ------------------------------------------------------------- detokenizer
\* the keys of TOKENS and of TOKENS_EXT
TOKENS == (128..224) \cup {226, 227, 228} \cup (230..240) \cup (243..248)

TOKENS_EXT == 128..172

\* no keyword that ends the decoding of a line
RemTokens_none == {}

\* the keys of TOKENS whose keyword is REM or '
RemTokens == {130, 131}

\* read_word_be(data, offset)
read_word_be(bs, offset) == (bs[offset + 1] * 256) + bs[offset + 2]

\* in_string when no character opens or closes a string literal
NextInString_never(b, in_string) == FALSE

\* in_string after the character b was appended
NextInString(b, in_string) == IF b = 34 THEN ~in_string ELSE in_string

\* the loop of detokenize_line at position i (from 0).  The text is a
\* sequence of pieces: <<"ch", b>> the character chr(b), <<"tok", b>> the
\* keyword TOKENS[b], <<"ext", b>> the keyword TOKENS_EXT[b], <<"unk", b>>
\* the text {255-b}, <<"bad", b>> the replacement character
RECURSIVE DetokenizeFrom(_, _, _)
DetokenizeFrom(line_bytes, i, in_string) ==
    LET b == line_bytes[i + 1]
    IN CASE i >= Len(line_bytes) -> <<>>
         [] i < Len(line_bytes) /\ b = 0 -> <<>>
         [] i < Len(line_bytes) /\ b = 255 /\ ~in_string ->
              IF i + 1 < Len(line_bytes)
              THEN << <<IF line_bytes[i + 2] \in TOKENS_EXT THEN "ext" ELSE "unk",
                        line_bytes[i + 2]>> >>
                   \o DetokenizeFrom(line_bytes, i + 2, in_string)
              ELSE <<>>
         [] i < Len(line_bytes) /\ b \in TOKENS /\ ~in_string ->
              IF b \in RemTokens
              THEN << <<"tok", b>> >>
                   \o [j \in 1..(Len(line_bytes) - (i + 1)) |->
                          <<"ch", line_bytes[i + 1 + j]>>]
              ELSE << <<"tok", b>> >> \o DetokenizeFrom(line_bytes, i + 1, in_string)
         [] OTHER ->
              IF b >= 32 /\ b <= 126
              THEN << <<"ch", b>> >>
                   \o DetokenizeFrom(line_bytes, i + 1, NextInString(b, in_string))
              ELSE << <<"bad", b>> >> \o DetokenizeFrom(line_bytes, i + 1, in_string)

detokenize_line(line_bytes) == DetokenizeFrom(line_bytes, 0, FALSE)

\* every line body taken as empty, whatever follows its start
ZeroPos_here(bs, start) == Min(start, Len(bs))

\* data.index(0, start), len(data) when there is no 0 from start on
ZeroPos(bs, start) ==
    LET zs == {p \in start..(Len(bs) - 1) : bs[p + 1] = 0}
    IN IF zs = {} THEN Len(bs) ELSE CHOOSE p \in zs : \A q \in zs : p <= q

\* the loop of detokenize_file at offset: the lines appended from there on
RECURSIVE DetokenizeLines(_, _, _)
DetokenizeLines(bs, offset, first_line) ==
    LET start == IF first_line THEN offset + 2 ELSE offset + 4
        line_number == IF first_line THEN read_word_be(bs, offset)
                       ELSE read_word_be(bs, offset + 2)
        zero_pos == ZeroPos(bs, start)
        line_bytes == Slice(bs, start, zero_pos)
    IN CASE offset + 2 > Len(bs) -> <<>>
         [] offset + 2 <= Len(bs) /\ ~first_line /\ offset + 4 > Len(bs) -> <<>>
         [] offset + 2 <= Len(bs) /\ ~first_line /\ offset + 4 <= Len(bs)
               /\ read_word_be(bs, offset) = 0 -> <<>>
         [] OTHER ->
              IF line_number = 0 THEN <<>>
              ELSE <<[line_number |-> line_number, line_bytes |-> line_bytes,
                      text |-> detokenize_line(line_bytes),
                      offset |-> offset, start |-> start]>>
                   \o DetokenizeLines(bs, zero_pos + 1, FALSE)

\* detokenize_file on the bytes of the file: the lines joined by "\n", each
\* the line number, a space and the text; IndexError (ok = FALSE) on an
\* empty file
detokenize_file(bs) ==
    IF bs = <<>> THEN [ok |-> FALSE, lines |-> <<>>]
    ELSE [ok |-> TRUE,
          lines |-> DetokenizeLines(bs, IF bs[1] = 255 THEN 5 ELSE 0, TRUE)]

\* tokenized files: what precedes the first line number (a preamble and a
\* link, a link alone, a zero link, nothing), the number, a body, its
\* terminator or none, and what follows
Programs ==
    {<<>>} \cup
    {pre \o num \o body \o term \o tail :
        pre \in {<<255, 0, 9, 38, 7>>, <<38, 7>>, <<0, 0>>, <<>>},
        num \in {<<0, 10>>, <<0, 0>>},
        body \in {<<65>>, <<135, 34, 130, 34, 255, 139>>, <<130, 34, 135, 65>>,
                  <<34, 255, 139, 135>>,
                  <<65, 66, 67, 68, 69, 70, 71, 72, 73, 74, 75, 76>>},
        term \in {<<0>>, <<>>},
        tail \in {<<>>, <<0, 0>>, <<38, 20, 0, 20, 65, 0, 0, 0>>,
                  <<38, 20, 0, 20, 34, 135>>, <<38>>,
                  <<38, 20, 0, 20, 135, 34, 131, 0, 0, 0>>,
                  <<38, 20, 0, 20, 131, 135, 34>>}}

\* ------------------------------------------------------------------- state
VARIABLES
    data,       \* DSKImage.data: the image buffer of the handle
    header,     \* DSKImage.header
    fat,        \* DSKImage.fat
    directory,  \* DSKImage.directory
    file,       \* the image file on the host: <<>> or <<its bytes>>
    last,       \* the last operation, its arguments and its outcome
    prev,       \* the operation before the last one
    nops,       \* operations since the volume was formatted
    os9,        \* the OS9Image object: data, descriptor, allocation_map,
                \* root_dir_entries
    out         \* the PC file an OS-9 extract writes: <<>> or <<its bytes>>

vars == <<data, header, fat, directory, file, last, prev, nops, os9, out>>

Handle == [data |-> data, header |-> header, fat |-> fat, directory |-> directory]

\* the record of an operation: before is the listing the handle held when the
\* operation began, deleted the entry delete_file matched, to the new name of
\* a rename, bytes what a view, an extract or a sector read returned, at the
\* (track, sector) of a sector read or write, fd the OS-9 file descriptor
\* read or handed in, lines what detokenize_file decoded, table the FAT a
\* chain walk read
NoOp ==
    [op |-> "init", ok |-> TRUE, why |-> "", name |-> <<>>, f |-> 0, len |-> 0,
     file_type |-> 0, ascii_flag |-> 0, granules |-> <<>>, slot |-> <<>>,
     chain |-> <<>>, geom |-> <<>>, before |-> <<>>, deleted |-> NoEntry,
     to |-> <<>>, bytes |-> <<>>, at |-> <<>>, fd |-> <<>>, lines |-> <<>>,
     table |-> <<>>]

\* DSKImage.__init__, and no image file yet
Init ==
    /\ data = EmptyData
    /\ header = DefaultHeader
    /\ fat = <<>>
    /\ directory = <<>>
    /\ file = <<>>
    /\ last = NoOp
    /\ prev = NoOp
    /\ nops = 0
    /\ os9 = NewOS9Image
    /\ out = <<>>

Opened == data # EmptyData

\* format_disk with a geometry of G
FormatIn(G) ==
    \E g \in G :
        LET r == format_disk(g[1], 18, g[2], g[3])
        IN /\ data' = r.data
           /\ header' = r.header
           /\ fat' = r.fat
           /\ directory' = r.directory
           /\ file' = <<r.data>>
           /\ last' = [NoOp EXCEPT !.op = "format", !.geom = g]
           /\ prev' = last
           /\ UNCHANGED <<os9, out>>
           /\ nops' = 0

\* DSKImage(filename).mount(): the handle is replaced when mount succeeds
MountIn(bound) ==
    /\ file # <<>>
    /\ nops < bound
    /\ LET r == mount(file[1], DefaultHeader)
       IN /\ IF r.ok
             THEN /\ data' = r.data
                  /\ header' = r.header
                  /\ fat' = r.fat
                  /\ directory' = r.directory
             ELSE UNCHANGED <<data, header, fat, directory>>
          /\ last' = [NoOp EXCEPT !.op = "mount", !.ok = r.ok, !.before = directory]
    /\ prev' = last
    /\ UNCHANGED <<os9, out>>
    /\ nops' = nops + 1
    /\ UNCHANGED file

\* save() to the file the handle was opened on
SaveIn(bound) ==
    /\ Opened
    /\ nops < bound
    /\ file' = <<data>>
    /\ last' = [NoOp EXCEPT !.op = "save", !.before = directory]
    /\ prev' = last
    /\ UNCHANGED <<os9, out>>
    /\ nops' = nops + 1
    /\ UNCHANGED <<data, header, fat, directory>>

\* upload_from_pc of a file of F under a name of N with a type and mode of T
InsertIn(N, F, T, bound) ==
    /\ Opened
    /\ nops < bound
    /\ \E n \in N, f \in F, tm \in T :
        LET r == upload_from_pc(Handle, f, FileLen(f), n, tm[1], tm[2])
        IN /\ data' = r.data
           /\ fat' = r.fat
           /\ directory' = r.directory
           /\ last' = [NoOp EXCEPT !.op = "insert", !.ok = r.ok, !.why = r.why,
                                   !.name = n, !.f = f, !.len = FileLen(f),
                                   !.file_type = tm[1], !.ascii_flag = tm[2],
                                   !.granules = r.granules, !.slot = r.slot,
                                   !.before = directory]
    /\ prev' = last
    /\ UNCHANGED <<os9, out>>
    /\ nops' = nops + 1
    /\ UNCHANGED <<header, file>>

\* delete_file of a name of N
DeleteIn(N, bound) ==
    /\ Opened
    /\ nops < bound
    /\ \E n \in N :
        LET r == delete_file(Handle, n)
        IN /\ data' = r.data
           /\ fat' = r.fat
           /\ directory' = r.directory
           /\ last' = [NoOp EXCEPT !.op = "delete", !.ok = r.ok, !.name = n,
                                   !.chain = r.chain, !.slot = r.slot,
                                   !.before = directory, !.deleted = r.deleted]
    /\ prev' = last
    /\ UNCHANGED <<os9, out>>
    /\ nops' = nops + 1
    /\ UNCHANGED <<header, file>>

\* rename_file of a name of O to a name of N; a rename that succeeds saves
RenameIn(O, N, bound) ==
    /\ Opened
    /\ nops < bound
    /\ \E o \in O, n \in N :
        LET r == rename_file(Handle, o, n)
        IN /\ data' = r.data
           /\ file' = IF r.ok THEN <<r.data>> ELSE file
           /\ last' = [NoOp EXCEPT !.op = "rename", !.ok = r.ok, !.why = r.why,
                                   !.name = o, !.to = n, !.slot = r.slot,
                                   !.before = directory]
    /\ prev' = last
    /\ UNCHANGED <<os9, out>>
    /\ nops' = nops + 1
    /\ UNCHANGED <<header, fat, directory>>

\* view_file of a name of N
ViewIn(N, bound) ==
    /\ Opened
    /\ nops < bound
    /\ \E n \in N :
        LET r == view_file(Handle, n)
        IN last' = [NoOp EXCEPT !.op = "view", !.ok = r.ok,
                                !.why = IF r.ok THEN "" ELSE "notfound",
                                !.name = n, !.bytes = r.bytes,
                                !.before = directory]
    /\ prev' = last
    /\ UNCHANGED <<os9, out>>
    /\ nops' = nops + 1
    /\ UNCHANGED <<data, header, fat, directory, file>>

\* copy_to_pc of a name of N
ExtractIn(N, bound) ==
    /\ Opened
    /\ nops < bound
    /\ \E n \in N :
        LET r == copy_to_pc(Handle, n)
        IN last' = [NoOp EXCEPT !.op = "extract", !.ok = r.ok,
                                !.why = IF r.ok THEN "" ELSE "notfound",
                                !.name = n, !.bytes = r.bytes,
                                !.before = directory]
    /\ prev' = last
    /\ UNCHANGED <<os9, out>>
    /\ nops' = nops + 1
    /\ UNCHANGED <<data, header, fat, directory, file>>

\* read_sector(track, sector) with track of T and sector of S: the slice is
\* returned whatever the offset is
ReadSectorIn(T, S, bound) ==
    /\ Opened
    /\ nops < bound
    /\ \E t \in T, n \in S :
        last' = [NoOp EXCEPT !.op = "read_sector", !.at = <<t, n>>,
                             !.bytes = <<read_sector(data, header, t, n)>>]
    /\ prev' = last
    /\ UNCHANGED <<os9, out>>
    /\ nops' = nops + 1
    /\ UNCHANGED <<data, header, fat, directory, file>>

\* write_sector(track, sector, data) with data of len bytes holding the
\* sector c of C: ValueError unless len is 256
WriteSectorIn(T, S, C, L, bound) ==
    /\ Opened
    /\ nops < bound
    /\ \E t \in T, n \in S, c \in C, len \in L :
        /\ data' = IF len # SECTOR_SIZE THEN data
                   ELSE write_sector(data, header, t, n, c)
        /\ last' = [NoOp EXCEPT !.op = "write_sector", !.at = <<t, n>>,
                                !.len = len, !.ok = (len = SECTOR_SIZE),
                                !.why = IF len = SECTOR_SIZE THEN "" ELSE "length"]
    /\ prev' = last
    /\ UNCHANGED <<os9, out>>
    /\ nops' = nops + 1
    /\ UNCHANGED <<header, fat, directory, file>>

\* OS9Image(filename).mount() on an image file of I
OS9MountIn(I) ==
    /\ \E bytes \in I :
        LET r == os9_mount(NewOS9Image, bytes)
        IN /\ os9' = r.self
           /\ last' = [NoOp EXCEPT !.op = "os9_mount", !.ok = r.ok]
    /\ prev' = last
    /\ nops' = 0
    /\ UNCHANGED <<data, header, fat, directory, file, out>>

\* is_os9_disk() on the mounted object
OS9DetectIn(bound) ==
    /\ os9.data # <<>>
    /\ nops < bound
    /\ last' = [NoOp EXCEPT !.op = "os9_detect",
                            !.ok = is_os9_disk(Len(os9.data),
                                               Slice(os9.data, 0, SECTOR_SIZE))]
    /\ prev' = last
    /\ nops' = nops + 1
    /\ UNCHANGED <<data, header, fat, directory, file, os9, out>>

\* show_disk_info()
OS9InfoIn(bound) ==
    /\ os9.data # <<>>
    /\ nops < bound
    /\ LET r == show_disk_info(os9)
       IN /\ os9' = r.self
          /\ last' = [NoOp EXCEPT !.op = "os9_info", !.ok = r.ok,
                                  !.len = r.total_bytes]
    /\ prev' = last
    /\ nops' = nops + 1
    /\ UNCHANGED <<data, header, fat, directory, file, out>>

\* list_files(show_details)
OS9ListIn(bound) ==
    /\ os9.data # <<>>
    /\ nops < bound
    /\ \E show_details \in BOOLEAN :
        LET r == os9_list_files(os9, show_details)
        IN /\ os9' = r.self
           /\ last' = [NoOp EXCEPT !.op = "os9_list", !.ok = r.ok,
                                   !.bytes = r.rows]
    /\ prev' = last
    /\ nops' = nops + 1
    /\ UNCHANGED <<data, header, fat, directory, file, out>>

\* _read_file_descriptor(fd_lsn) with fd_lsn of L
OS9ReadDescriptorIn(L, bound) ==
    /\ os9.data # <<>>
    /\ nops < bound
    /\ \E fd_lsn \in L :
        LET r == read_file_descriptor(os9, fd_lsn)
        IN last' = [NoOp EXCEPT !.op = "os9_fd", !.ok = r.ok, !.len = fd_lsn,
                                !.fd = r.fd]
    /\ prev' = last
    /\ nops' = nops + 1
    /\ UNCHANGED <<data, header, fat, directory, file, os9, out>>

\* _read_file_data(fd) with fd_siz of Z and fd_seg of G
OS9ReadDataIn(Z, G, bound) ==
    /\ os9.data # <<>>
    /\ nops < bound
    /\ \E fd_siz \in Z, fd_seg \in G :
        LET fd == Descriptor(3, fd_siz, fd_seg)
            r == read_file_data(os9, fd)
        IN last' = [NoOp EXCEPT !.op = "os9_read", !.ok = r.ok,
                                !.why = IF r.ok THEN "" ELSE "range",
                                !.fd = fd, !.bytes = r.bytes]
    /\ prev' = last
    /\ nops' = nops + 1
    /\ UNCHANGED <<data, header, fat, directory, file, os9, out>>

\* extract_file(filename, output_path) with filename of N
OS9ExtractIn(N, bound) ==
    /\ os9.data # <<>>
    /\ nops < bound
    /\ \E n \in N :
        LET r == os9_extract_file(os9, n, out)
        IN /\ os9' = r.self
           /\ out' = r.out
           /\ last' = [NoOp EXCEPT !.op = "os9_extract", !.ok = r.ok,
                                   !.why = r.why, !.name = n]
    /\ prev' = last
    /\ nops' = nops + 1
    /\ UNCHANGED <<data, header, fat, directory, file>>

\* is_os9_disk() on the bytes of the image file, as --detect runs it
DetectIn(bound) ==
    /\ file # <<>>
    /\ nops < bound
    /\ last' = [NoOp EXCEPT !.op = "detect",
                            !.ok = is_os9_disk(DataLen(file[1]),
                                               ImageBytes(file[1], 0, SECTOR_SIZE))]
    /\ prev' = last
    /\ nops' = nops + 1
    /\ UNCHANGED <<data, header, fat, directory, file, os9, out>>

\* _get_granule_chain from a granule of G on a handle whose FAT is one of F;
\* ok is FALSE when the while loop never ends
GranuleChainIn(F, G, bound) ==
    /\ nops < bound
    /\ \E ft \in F, g \in G :
        LET w == ChainWalk(ft, g, <<>>)
        IN last' = [NoOp EXCEPT !.op = "chain", !.ok = ~w.loops, !.table = ft,
                                !.granules = <<g>>, !.chain = w.chain]
    /\ prev' = last
    /\ nops' = nops + 1
    /\ UNCHANGED <<data, header, fat, directory, file, os9, out>>

\* detokenize_file on a file of D
DetokenizeIn(D, bound) ==
    /\ nops < bound
    /\ \E bs \in D :
        LET r == detokenize_file(bs)
        IN last' = [NoOp EXCEPT !.op = "detokenize", !.ok = r.ok, !.bytes = bs,
                                !.lines = r.lines]
    /\ prev' = last
    /\ nops' = nops + 1
    /\ UNCHANGED <<data, header, fat, directory, file, os9, out>>

\* Spec: every file size on a two-sided image with a header, short runs
Format == FormatIn({<<40, 2, TRUE>>})
Mount == MountIn(MaxOps)
Save == SaveIn(MaxOps)
Insert == InsertIn({NameUpper, NameBad}, 1..6, {TypeML}, MaxOps)
Delete == DeleteIn({NameUpper, NameBad}, MaxOps)

Next == Format \/ Mount \/ Save \/ Insert \/ Delete

Spec == Init /\ [][Next]_vars

\* SpecDeep: sequences of insert and delete on one geometry: two names that
\* differ in case only with two file sizes, a third name and the rejected
\* name with one
FormatDeep == FormatIn({<<35, 1, FALSE>>})
InsertDeep == InsertIn({NameUpper, NameLower}, {1, 3}, {TypeText}, MaxDeepOps)
InsertOtherDeep == InsertIn({NameOther, NameBad}, {3}, {TypeText}, MaxDeepOps)
DeleteDeep == DeleteIn({NameUpper, NameLower, NameOther}, MaxDeepOps)

NextDeep == FormatDeep \/ InsertDeep \/ InsertOtherDeep \/ DeleteDeep

SpecDeep == Init /\ [][NextDeep]_vars

\* SpecFormat: every geometry format_disk is offered for
FormatAll == FormatIn(AllGeometries)
MountAll == MountIn(MaxFormatOps)
SaveAll == SaveIn(MaxFormatOps)
InsertAll == InsertIn({NameUpper}, {4, 8}, {TypeML}, MaxFormatOps)
DeleteAll == DeleteIn({NameUpper}, MaxFormatOps)

NextFormat == FormatAll \/ MountAll \/ SaveAll \/ InsertAll \/ DeleteAll

SpecFormat == Init /\ [][NextFormat]_vars

\* SpecRename: rename, view and extract among inserts and deletes of two
\* names, asked for in either case
FormatRename == FormatIn({<<35, 1, FALSE>>})
MountRename == MountIn(MaxRenameOps)
InsertRename == InsertIn({NameUpper, NameOther}, {1, 3}, {TypeText}, MaxRenameOps)
DeleteRename == DeleteIn({NameUpper, NameLower}, MaxRenameOps)
Rename == RenameIn({NameUpper, NameLower, NameOther}, {NameOther, NameNew, NameBad},
                   MaxRenameOps)
View == ViewIn({NameUpper, NameLower, NameOther}, MaxRenameOps)
Extract == ExtractIn({NameUpper, NameLower, NameOther}, MaxRenameOps)

NextRename ==
    \/ FormatRename \/ MountRename \/ InsertRename \/ DeleteRename
    \/ Rename \/ View \/ Extract

SpecRename == Init /\ [][NextRename]_vars

\* SpecSector: sector reads and writes on a 35-track image (tracks 0..34,
\* sectors 1..18), inside the buffer, at its end and past it
FormatSector == FormatIn({<<35, 1, FALSE>>})
ReadSector == ReadSectorIn({0, 34, 35, 36}, {1, 18}, MaxSectorOps)
WriteSector ==
    WriteSectorIn({0, 34, 35, 36}, {1, 18}, {FillSector, DataSector(1, 5, 0)},
                  {SECTOR_SIZE, 5}, MaxSectorOps)

NextSector == FormatSector \/ ReadSector \/ WriteSector

SpecSector == Init /\ [][NextSector]_vars

\* SpecDetect: OS-9 detection of image files written by format, insert and
\* save, with and without a JVC header
FormatDetect == FormatIn({<<35, 1, FALSE>>, <<40, 2, TRUE>>})
MountDetect == MountIn(MaxDetectOps)
SaveDetect == SaveIn(MaxDetectOps)
InsertDetect == InsertIn({NameUpper, NameOther}, {1, 7}, {TypeML}, MaxDetectOps)
DeleteDetect == DeleteIn({NameUpper}, MaxDetectOps)
Detect == DetectIn(MaxDetectOps)

NextDetect ==
    \/ FormatDetect \/ MountDetect \/ SaveDetect \/ InsertDetect
    \/ DeleteDetect \/ Detect

SpecDetect == Init /\ [][NextDetect]_vars

\* SpecOS9: the operations of OS9Image on three image files
OS9Mount == OS9MountIn({ImageGood, ImageOdd, ImageShort})
OS9Detect == OS9DetectIn(MaxOS9Ops)
OS9Info == OS9InfoIn(MaxOS9Ops)
OS9List == OS9ListIn(MaxOS9Ops)
OS9ReadDescriptor == OS9ReadDescriptorIn({2, 4, 5, 50}, MaxOS9Ops)
OS9ReadData == OS9ReadDataIn({0, 300, 512, 1000}, SegmentLists, MaxOS9Ops)
OS9Extract ==
    OS9ExtractIn({NameHello, NameHelloLower, NameSub, NameEmpty, NameRange,
                  NameLost, NameNone}, MaxOS9Ops)

NextOS9 ==
    \/ OS9Mount \/ OS9Detect \/ OS9Info \/ OS9List \/ OS9ReadDescriptor
    \/ OS9ReadData \/ OS9Extract

SpecOS9 == Init /\ [][NextOS9]_vars

\* SpecDetokenize: detokenize_file on tokenized files
Detokenize == DetokenizeIn(Programs, MaxDetokenizeOps)

NextDetokenize == Detokenize

SpecDetokenize == Init /\ [][NextDetokenize]_vars

\* SpecChain: inserts of files of 5 and 0 bytes under a good and a bad name
\* and of a file of 2305 bytes under another name, deletes and renames on a
\* one-sided image of 35 tracks
FormatChain == FormatIn({<<35, 1, FALSE>>})
InsertChain == InsertIn({NameUpper, NameBad}, {1, 5}, {TypeText}, MaxChainOps)
InsertOtherChain == InsertIn({NameOther}, {3}, {TypeText}, MaxChainOps)
DeleteChain == DeleteIn({NameUpper, NameOther}, MaxChainOps)
RenameChain == RenameIn({NameUpper}, {NameOther, NameNew}, MaxChainOps)

NextChain ==
    FormatChain \/ InsertChain \/ InsertOtherChain \/ DeleteChain \/ RenameChain

SpecChain == Init /\ [][NextChain]_vars

\* SpecWalk: chain walks on sound and corrupted FATs
GranuleChain == GranuleChainIn(Tables, {0, 1, 2, 3, MAX_GRANULE}, MaxWalkOps)

NextWalk == GranuleChain

SpecWalk == Init /\ [][NextWalk]_vars

\* SpecFill: files of 0 and 5 bytes and a file of 68 granules, which fills
\* the volume at once, inserted and deleted
FormatFill == FormatIn({<<35, 1, FALSE>>})
InsertFill == InsertIn({NameUpper, NameNew}, {1, 5}, {TypeText}, MaxFillOps)
InsertWholeFill == InsertIn({NameOther}, {8}, {TypeML}, MaxFillOps)
DeleteFill == DeleteIn({NameUpper, NameOther}, MaxFillOps)

NextFill == FormatFill \/ InsertFill \/ InsertWholeFill \/ DeleteFill

SpecFill == Init /\ [][NextFill]_vars

\* ------------------------------------------------------------------ claims
\* the slot number (0..71) of a (sector_num, offset) pair
SlotNumber(slot) ==
    ((slot[1] - DIR_START_SECTOR) * SLOTS_PER_SECTOR) + (slot[2] \div ENTRY_SIZE)

\* granules a file of size bytes needs
GranulesFor(size) == (size + GRANULE_SIZE - 1) \div GRANULE_SIZE

\* the sum over the listed files of the granules their listed sizes need
RECURSIVE ListedGranules(_, _)
ListedGranules(ft, dir) ==
    IF dir = <<>> THEN 0
    ELSE GranulesFor(ListedSize(ft, dir[1])) + ListedGranules(ft, Tail(dir))

\* C1: after a successful insert of a file of at least one byte under a name
\* n, extract-by-name of n returns exactly the bytes of that file
C1_RoundTrip ==
    (last.op = "insert" /\ last.ok /\ last.len >= 1)
        => LET r == copy_to_pc(Handle, last.name)
           IN r.ok /\ r.bytes = FileBytes(last.f, last.len)

\* C2: on a formatted volume, after any inserts and deletes, successful or
\* failed, the number of free FAT entries is 68 minus the sum over the listed
\* files of ceil(size / 2304)
C2_FreeSpaceAccounting ==
    Opened => FreeCount(fat) = 68 - ListedGranules(fat, directory)

\* C3: an insert that reports failure leaves the image buffer, the in-memory
\* FAT and the in-memory listing as they were before the call
C3_AllOrNothing ==
    [][(last'.op = "insert" /\ ~last'.ok)
        => (data' = data /\ fat' = fat /\ directory' = directory)]_vars

\* C4: format, for tracks in {35,40,80}, sides in {1,2}, with or without the
\* header, yields a buffer of tracks*sides*18*256 bytes plus 5 header bytes
\* when asked for, whose FAT holds 68 free entries and whose directory sectors
\* hold no active entry; mounting that buffer succeeds with a free count of
\* 68 and an empty listing, and changes no byte of the buffer
C4_FormatPostcondition ==
    last.op = "format"
        => LET g == last.geom
               m == mount(data, DefaultHeader)
           IN /\ g[1] \in {35, 40, 80} /\ g[2] \in {1, 2}
              /\ DataLen(data) = (g[1] * g[2] * 18 * 256) + (IF g[3] THEN 5 ELSE 0)
              /\ Len(read_fat(data, header)) = 68
              /\ \A i \in 1..68 : read_fat(data, header)[i] = 255
              /\ \A n \in 3..11 : read_sector(data, header, 17, n) # EmptySlice
              /\ \A x \in SlotIds : ~IsActive(SlotAt(data, header, x))
              /\ m.ok
              /\ FreeCount(m.fat) = 68
              /\ m.directory = <<>>
              /\ m.data = data

\* a mount of the buffer format produced for 80 tracks, 2 sides and a header
C4_Witness ==
    /\ last.op = "mount" /\ last.ok
    /\ prev.op = "format" /\ prev.geom = <<80, 2, TRUE>>
    /\ DataLen(data) = 737285
    /\ header.header_size = 5
    /\ FreeCount(fat) = 68
    /\ directory = <<>>

\* C5: an insert of a file of 0 bytes under an encodable name succeeds,
\* leaves the free count as it was, and creates an active directory entry
\* whose last_sector_bytes is 0
C5_ZeroLength ==
    [][(last'.op = "insert" /\ last'.len = 0 /\ CanEncodeAscii(last'.name))
        => /\ last'.ok
           /\ FreeCount(fat') = FreeCount(fat)
           /\ LET e == SlotAt(data', header', SlotNumber(last'.slot))
              IN IsActive(e) /\ e.last_sector_bytes = 0]_vars

\* C6: a successful insert of L >= 1 bytes consumes exactly ceil(L / 2304)
\* granules and stores last_sector_bytes = L mod 256, or 256 when L mod 256
\* is 0
C6_SizeFields ==
    [][(last'.op = "insert" /\ last'.ok /\ last'.len >= 1)
        => LET L == last'.len
               n == IF L % 2304 = 0 THEN L \div 2304 ELSE (L \div 2304) + 1
               e == SlotAt(data', header', SlotNumber(last'.slot))
           IN /\ FreeCount(fat) - FreeCount(fat') = n
              /\ Len(get_granule_chain(fat', e.first_granule)) = n
              /\ e.last_sector_bytes = (IF L % 256 = 0 THEN 256 ELSE L % 256)]_vars

\* 5000 bytes inserted: 3 granules and a last_sector_bytes of 136
C6_Witness ==
    /\ last.op = "insert" /\ last.ok /\ last.len = 5000
    /\ Len(last.granules) = 3
    /\ SlotAt(data, header, SlotNumber(last.slot)).last_sector_bytes = 136

\* C7: a successful insert of L >= 1 bytes on granules g0 < ... < g(n-1)
\* writes FAT[gi] = g(i+1) for i < n-1 and FAT[g(n-1)] = 0xC0 | t with
\* t = ceil(L / 256) - 9 * (n - 1) in 1..9; and no insert writes a FAT value
\* that is a bare 0xC0 or lies outside 0x00..0x43 and 0xC1..0xC9
C7_ChainWritten ==
    [][(last'.op = "insert")
        => /\ (last'.ok /\ last'.len >= 1)
                => LET gs == last'.granules
                       n == Len(gs)
                       t == ((last'.len + 255) \div 256) - (9 * (n - 1))
                   IN /\ n >= 1
                      /\ \A i \in 1..(n - 1) : gs[i] < gs[i + 1]
                      /\ \A i \in 1..(n - 1) : fat'[gs[i] + 1] = gs[i + 1]
                      /\ t \in 1..9
                      /\ fat'[gs[n] + 1] = 192 + t
           /\ \A g \in 1..Len(fat') :
                fat'[g] # fat[g] => (fat'[g] \in 0..67 \/ fat'[g] \in 193..201)]_vars

\* C8: a successful delete sets every FAT entry on the chain of the matched
\* entry to 0xFF, so the free count grows by the chain length; it writes 0xFF
\* to the first byte of the entry's slot, copies the in-memory FAT to bytes
\* 0..67 of track 17 sector 2, and the re-scanned listing has lost that entry
\* and kept every other
C8_DeletePostcondition ==
    [][(last'.op = "delete" /\ last'.ok)
        => LET x == SlotNumber(last'.slot)
               old == SlotAt(data, header, x)
               chain == get_granule_chain(fat, old.first_granule)
           IN /\ IsActive(old)
              /\ Upper(full_name(parse_directory_entry(old))) = Upper(last'.name)
              /\ \A i \in 1..Len(chain) : fat'[chain[i][1] + 1] = 255
              /\ FreeCount(fat') = FreeCount(fat) + Len(chain)
              /\ SlotAt(data', header', x).name[1] = 255
              /\ read_fat(data', header') = fat'
              /\ directory' = read_directory(data', header')
              /\ ListedSlots(data', header') = ListedSlots(data, header) \ {x}
              /\ \A y \in ListedSlots(data', header') :
                    SlotAt(data', header', y) = SlotAt(data, header, y)
              /\ Len(directory') = Len(directory) - 1]_vars

\* a two-granule file deleted while another file stays listed
C8_Witness ==
    /\ last.op = "delete" /\ last.ok
    /\ Len(last.chain) = 2
    /\ Upper(full_name(last.deleted)) = NameUpper
    /\ Len(last.before) = 2
    /\ Len(directory) = 1
    /\ full_name(directory[1]) = NameOther
    /\ FreeCount(fat) = 66

\* C9: a successful insert writes the new entry into the lowest-numbered slot
\* whose first byte is 0x00 or 0xFF and sets first_granule to the
\* lowest-numbered free granule, and the listing is in slot order; after a
\* delete that left the listing empty the insert occupies slot 0 with
\* first_granule 0
C9_SlotAndGranuleReuse ==
    [][(last'.op = "insert" /\ last'.ok)
        => LET x == SlotNumber(last'.slot)
               e == SlotAt(data', header', x)
               ids == SortedSeq(ListedSlots(data', header'))
           IN /\ SlotAt(data, header, x).name[1] \in {0, 255}
              /\ \A y \in 0..(x - 1) : SlotAt(data, header, y).name[1] \notin {0, 255}
              /\ IsActive(e)
              /\ fat[e.first_granule + 1] = 255
              /\ \A g \in 0..(e.first_granule - 1) : fat[g + 1] # 255
              /\ directory' = [i \in 1..Len(ids) |->
                                  parse_directory_entry(SlotAt(data', header', ids[i]))]
              /\ (last.op = "delete" /\ last.ok /\ directory = <<>>)
                    => (x = 0 /\ e.first_granule = 0)]_vars

\* C10: delete(n) followed by a successful insert(n, bytes) of the type and
\* mode the deleted entry had yields a listing with the same files as before
\* the delete: the new entry has the name, extension, type and mode of the
\* deleted one, and every other entry keeps its name, extension, type, mode
\* and last_sector_bytes
C10_DeleteThenReinsert ==
    [][(/\ last'.op = "insert" /\ last'.ok
        /\ last.op = "delete" /\ last.ok
        /\ last'.name = last.name
        /\ last'.file_type = last.deleted.file_type
        /\ last'.ascii_flag = last.deleted.ascii_flag)
        => LET old == last.deleted
               new == parse_directory_entry(
                          SlotAt(data', header', SlotNumber(last'.slot)))
               Key(e) == <<e.filename, e.extension, e.file_type, e.ascii_flag>>
               Full(e) == <<e.filename, e.extension, e.file_type, e.ascii_flag,
                            e.last_sector_bytes>>
               Count(seq, v) == Cardinality({i \in DOMAIN seq : seq[i] = v})
               was == [i \in DOMAIN last.before |-> Full(last.before[i])]
               now == [i \in DOMAIN directory' |-> Full(directory'[i])]
               kept == [i \in DOMAIN directory |-> Full(directory[i])]
           IN /\ Key(new) = Key(old)
              /\ Len(now) = Len(was)
              /\ \A i \in DOMAIN kept :
                    /\ Count(was, kept[i]) >= Count(kept, kept[i])
                    /\ Count(now, kept[i]) >= Count(kept, kept[i])]_vars

\* C11: a successful insert stores, in bytes 0..10 of the new slot, the part
\* of the requested name before its last '.' upper-cased and left-justified in
\* 8 bytes, then the part after it upper-cased and left-justified in 3 bytes,
\* and no active slot holds a lower-case letter in bytes 0..10
C11_NameNormalization ==
    [][(last'.op = "insert" /\ last'.ok)
        => LET parts == SplitName(last'.name)
               e == SlotAt(data', header', SlotNumber(last'.slot))
           IN /\ e.name = Ljust(Upper(parts[1]), 8) \o Ljust(Upper(parts[2]), 3)
              /\ \A s \in ListedSlots(data', header') :
                    \A i \in 1..11 :
                        SlotAt(data', header', s).name[i] \notin 97..122]_vars

\* the name a listing shows for the 11 bytes rename_file stores for new_name
CanonicalName(new_name) ==
    LET b == RenamedBytes(new_name)
    IN full_name([filename |-> RStrip(DecodeAscii(SubSeq(b, 1, 8))),
                  extension |-> RStrip(DecodeAscii(SubSeq(b, 9, 11)))])

\* entries of a listing under a name, compared character for character
ListedUnder(dir, name) == {i \in DOMAIN dir : full_name(dir[i]) = name}

\* C12: an extract, delete, rename or view of a name finds an entry whenever
\* the volume holds one whose NAME.EXT equals the requested name ignoring
\* case (in the listing of the handle and in the directory sectors alike): it
\* never reports not-found
C12_CaseInsensitiveLookup ==
    [][(/\ last'.op \in {"extract", "delete", "rename", "view"}
        /\ \E i \in DOMAIN directory :
              Upper(full_name(directory[i])) = Upper(last'.name)
        /\ FindSlot(data, header, last'.name) # -1)
        => IF last'.op = "delete" THEN last'.ok ELSE last'.why # "notfound"]_vars

\* C13: right after a successful rename(old, new) to a different name the
\* listing of the handle shows an entry under the new name and one entry
\* fewer under the old name, and a view, an extract and a rename of the new
\* name find it, without a mount in between
C13_RenameObservable ==
    [][(last'.op = "rename" /\ last'.ok /\ CanonicalName(last'.to) # last'.name)
        => LET new == CanonicalName(last'.to)
               h == [data |-> data', header |-> header', fat |-> fat',
                     directory |-> directory']
           IN /\ ListedUnder(directory', new) # {}
              /\ Cardinality(ListedUnder(directory', last'.name))
                    < Cardinality(ListedUnder(directory, last'.name))
              /\ view_file(h, new).ok
              /\ copy_to_pc(h, new).ok
              /\ rename_file(h, new, last'.name).why # "notfound"]_vars

\* C14: a successful rename changes bytes 0..10 of one directory slot only,
\* the slot that holds the entry the name was found for: the length of the
\* buffer, the FAT (in the handle and in its sector), every other sector,
\* every other slot and bytes 11..31 of the renamed slot are the same, and so
\* are the bytes extracted for every listed entry
C14_RenameFrame ==
    [][(last'.op = "rename" /\ last'.ok)
        => LET x == SlotNumber(last'.slot)
               e == directory[FindExact(directory, last'.name)]
               was == SlotAt(data, header, x)
               now == SlotAt(data', header', x)
               idx == SectorIndex(data, get_sector_offset(header, DIR_TRACK,
                                                          SlotSector(x)))
           IN /\ IsActive(was)
              /\ [parse_directory_entry(was) EXCEPT !.filename = e.filename,
                                                    !.extension = e.extension] = e
              /\ now = [was EXCEPT !.name = RenamedBytes(last'.to)]
              /\ \A s \in SlotIds \ {x} :
                    SlotAt(data', header', s) = SlotAt(data, header, s)
              /\ header' = header
              /\ data'.hdr = data.hdr
              /\ data'.nsec = data.nsec
              /\ \A k \in ((DOMAIN data.sec) \cup (DOMAIN data'.sec)) \ {idx} :
                    /\ k \in DOMAIN data.sec
                    /\ k \in DOMAIN data'.sec
                    /\ data'.sec[k] = data.sec[k]
              /\ fat' = fat
              /\ read_fat(data', header') = read_fat(data, header)
              /\ directory' = directory
              /\ \A j \in DOMAIN directory :
                    extract_file(data', header', fat', directory[j])
                        = extract_file(data, header, fat, directory[j])]_vars

\* a rename of "A.B" to "e.f" went through while "C.D" was on the volume too
C14_Witness ==
    /\ last.op = "rename"
    /\ last.ok
    /\ last.name = NameUpper
    /\ last.to = NameNew
    /\ SlotAt(data, header, SlotNumber(last.slot)).name = RenamedBytes(NameNew)
    /\ FindSlot(data, header, NameOther) # -1
    /\ Len(directory) = 2

\* C15: a sector read or write whose offset lies at or past the end of the
\* buffer fails with an out-of-range error: it returns no sector, short, empty
\* or whole, and the buffer keeps its length
C15_SectorBounds ==
    [][(/\ last'.op \in {"read_sector", "write_sector"}
        /\ get_sector_offset(header, last'.at[1], last'.at[2]) >= DataLen(data))
        => /\ ~last'.ok
           /\ last'.why \in {"range", "length"}
           /\ last'.bytes = <<>>
           /\ DataLen(data') = DataLen(data)]_vars

\* C16: OS-9 detection of an image file that was formatted as a DECB volume
\* without a JVC header, whatever was inserted into it afterwards, answers
\* false
C16_DetectRejectsDECB ==
    (last.op = "detect" /\ Len(file[1].hdr) = 0) => ~last.ok

\* the sectors a segment list names, in list order
RECURSIVE SegmentLsns(_)
SegmentLsns(fd_seg) ==
    IF fd_seg = <<>> THEN <<>>
    ELSE [i \in 1..fd_seg[1][2] |-> fd_seg[1][1] + i - 1]
         \o SegmentLsns(SubSeq(fd_seg, 2, Len(fd_seg)))

\* C17: the bytes _read_file_data returns are the sectors of the segments in
\* list order cut to fd_siz bytes: min(fd_siz, 256 * sectors) bytes, byte j
\* of them byte j % 256 of sector j / 256 of the list, for fd_siz = 0 as well
C17_ReadLength ==
    (last.op = "os9_read" /\ last.ok)
        => LET lsns == SegmentLsns(last.fd.fd_seg)
               n == Min(last.fd.fd_siz, SECTOR_SIZE * Len(lsns))
           IN /\ Len(last.bytes) = n
              /\ \A j \in 0..(n - 1) :
                    last.bytes[j + 1]
                        = os9.data[(lsns[(j \div SECTOR_SIZE) + 1] * SECTOR_SIZE)
                                   + (j % SECTOR_SIZE) + 1]

\* C18: an OS-9 extract looks the name up in the root directory ignoring
\* case; when no entry has the name it fails as not found, when bit 7 of the
\* attribute byte of the file descriptor is set it fails as a directory, and
\* in both cases, as after any failure, the output file is as it was;
\* otherwise, the descriptor and its sectors being readable, it succeeds and
\* the output file holds the bytes of _read_file_data for that descriptor
C18_ExtractOutcomes ==
    [][last'.op = "os9_extract"
        => LET hits == {i \in 1..Len(os9.root_dir_entries) :
                          Upper(os9.root_dir_entries[i].dir_nm) = Upper(last'.name)}
               first == CHOOSE i \in hits : \A j \in hits : i <= j
               fd == read_file_descriptor(os9, os9.root_dir_entries[first].dir_fd)
               file_data == read_file_data(os9, fd.fd)
           IN /\ hits = {} => (~last'.ok /\ last'.why = "notfound")
              /\ (hits # {} /\ fd.ok /\ (fd.fd.fd_att \div 128) % 2 = 1)
                    => (~last'.ok /\ last'.why = "directory")
              /\ (hits # {} /\ fd.ok /\ (fd.fd.fd_att \div 128) % 2 = 0 /\ file_data.ok)
                    => (last'.ok /\ out' = <<file_data.bytes>>)
              /\ ~last'.ok => out' = out]_vars

\* "hello" was extracted from the volume that stores "Hello": 300 bytes, and
\* the next extract, of the directory SUB, failed and left them in place
C18_Witness ==
    /\ last.op = "os9_extract"
    /\ last.name = NameSub
    /\ last.why = "directory"
    /\ prev.op = "os9_extract"
    /\ prev.name = NameHelloLower
    /\ prev.ok
    /\ out # <<>>
    /\ Len(out[1]) = 300
    /\ out[1][1] = 104
    /\ out[1][300] = 119

\* C19: a detect, a disk info, a listing, a read of a file descriptor, a read
\* of file data or an extract changes no byte of the buffer of a mounted
\* OS-9 image, and neither its parsed descriptor nor its allocation map
C19_ReadOnly ==
    [][last'.op \in {"os9_detect", "os9_info", "os9_list", "os9_fd", "os9_read",
                     "os9_extract"}
        => /\ os9'.data = os9.data
           /\ os9'.descriptor = os9.descriptor
           /\ os9'.allocation_map = os9.allocation_map]_vars

\* a detailed listing and then an extract were run on the mounted volume of
\* 10 sectors, whose map holds 2 bytes
C19_Witness ==
    /\ last.op = "os9_extract"
    /\ last.ok
    /\ prev.op = "os9_list"
    /\ prev.ok
    /\ Len(prev.bytes) = 3
    /\ os9.data = ImageGood
    /\ os9.descriptor.dd_tot = 10
    /\ os9.allocation_map = <<255, 192>>

\* the lines of a file framed as stated: from offset on, a line without a
\* link when bare, else a link, a line number and a body
RECURSIVE FramedLines(_, _, _)
FramedLines(bs, offset, bare) ==
    LET start == IF bare THEN offset + 2 ELSE offset + 4
        zero_pos == ZeroPos(bs, start)
    IN IF start > Len(bs) THEN <<>>
       ELSE IF ~bare /\ read_word_be(bs, offset) = 0 THEN <<>>
       ELSE IF read_word_be(bs, start - 2) = 0 THEN <<>>
       ELSE <<[line_number |-> read_word_be(bs, start - 2),
               line_bytes |-> Slice(bs, start, zero_pos)]>>
            \o FramedLines(bs, zero_pos + 1, FALSE)

\* C20: the first line is read as a bare line number and a body after the
\* 5-byte preamble only when byte 0 is 0xFF; in a file whose byte 0 is not
\* 0xFF every line, the first too, is read as a link, a line number and a
\* body, and decoding ends at the first link that is 0x0000
C20_FirstLineFraming ==
    (last.op = "detokenize" /\ last.ok)
        => [i \in DOMAIN last.lines |->
               [line_number |-> last.lines[i].line_number,
                line_bytes |-> last.lines[i].line_bytes]]
           = FramedLines(last.bytes, IF last.bytes[1] = 255 THEN 5 ELSE 0,
                         last.bytes[1] = 255)


\* the bytes a piece of text stands for
PieceBytes(p) == IF p[1] \in {"ext", "unk"} THEN <<255, p[2]>> ELSE <<p[2]>>

RECURSIVE TextBytes(_)
TextBytes(text) ==
    IF text = <<>> THEN <<>> ELSE PieceBytes(Head(text)) \o TextBytes(Tail(text))

\* the '"' characters of a text before its piece k
QuotesBefore(text, k) == Cardinality({j \in 1..(k - 1) : text[j] = <<"ch", 34>>})

\* C21: in a line body no byte between an opening '"' and the next '"' is
\* decoded as a primary or extended token; the first 0x00 from the start of
\* the body ends it even when a string literal is open, so the body holds
\* no terminator and no byte of the following line, which starts right
\* after the terminator; and every line starts outside a string literal
C21_StringLiterals ==
    (last.op = "detokenize" /\ last.ok)
        => \A i \in DOMAIN last.lines :
              LET ln == last.lines[i]
                  body == ln.line_bytes
                  stop == ln.start + Len(body)
              IN /\ \A k \in DOMAIN ln.text :
                        QuotesBefore(ln.text, k) % 2 = 1
                            => ln.text[k][1] \in {"ch", "bad"}
                 /\ \/ TextBytes(ln.text) = body
                    \/ TextBytes(ln.text) \o <<255>> = body
                 /\ body = Slice(last.bytes, ln.start, stop)
                 /\ \A j \in DOMAIN body : body[j] # 0
                 /\ stop = Len(last.bytes) \/ last.bytes[stop + 1] = 0
                 /\ i < Len(last.lines) => last.lines[i + 1].offset = stop + 1
                 /\ (body # <<>> /\ body[1] \in TOKENS)
                        => ln.text[1] = <<"tok", body[1]>>
                 /\ (Len(body) >= 2 /\ body[1] = 255)
                        => ln.text[1][1] \in {"ext", "unk"}

\* a file whose first line leaves a string literal open over the bytes of
\* an extended and a primary token, followed by a line that starts with a
\* token and holds a token byte inside a literal of its own
C21_Witness ==
    /\ last.op = "detokenize" /\ last.ok
    /\ Len(last.lines) = 2
    /\ last.lines[1].text = <<<<"ch", 34>>, <<"bad", 255>>, <<"bad", 139>>, <<"bad", 135>>>>
    /\ last.lines[2].text = <<<<"tok", 135>>, <<"ch", 34>>, <<"bad", 131>>>>


\* the first piece of a text that is the keyword REM or ', 0 when none
FirstRem(text) ==
    LET ks == {k \in DOMAIN text : text[k][1] = "tok" /\ text[k][2] \in {130, 131}}
    IN IF ks = {} THEN 0 ELSE CHOOSE k \in ks : \A j \in ks : k <= j

\* C22: a REM (0x82) or ' (0x83) token outside a string literal is emitted
\* as its keyword, every byte of the body after it up to the terminator
\* follows as one character each (no token expanded, no quote toggling), and
\* nothing else is decoded on that line
C22_RemVerbatim ==
    (last.op = "detokenize" /\ last.ok)
        => \A i \in DOMAIN last.lines :
              LET text == last.lines[i].text
                  body == last.lines[i].line_bytes
                  k == FirstRem(text)
                  at == Len(TextBytes(SubSeq(text, 1, k)))
              IN /\ k > 0 =>
                        /\ QuotesBefore(text, k) % 2 = 0
                        /\ TextBytes(SubSeq(text, 1, k)) = SubSeq(body, 1, at)
                        /\ SubSeq(text, k + 1, Len(text))
                             = [j \in 1..(Len(body) - at) |-> <<"ch", body[at + j]>>]
                 /\ \A j \in DOMAIN body :
                        (/\ body[j] \in {130, 131}
                         /\ \A m \in 1..(j - 1) : body[m] \notin {130, 131} \cup {34, 255})
                            => /\ Len(text) = Len(body)
                               /\ text[j] = <<"tok", body[j]>>
                               /\ \A m \in (j + 1)..Len(body) : text[m] = <<"ch", body[m]>>

\* a REM followed by a quote, a token byte and a letter, and on the next
\* line, not terminated, a ' followed by a token byte and a quote
C22_Witness ==
    /\ last.op = "detokenize" /\ last.ok
    /\ Len(last.lines) = 2
    /\ last.lines[1].text = <<<<"tok", 130>>, <<"ch", 34>>, <<"ch", 135>>, <<"ch", 65>>>>
    /\ last.lines[2].text = <<<<"tok", 131>>, <<"ch", 135>>, <<"ch", 34>>>>


\* the granules reached from granule g by the next-pointers of ft, with seen
\* already passed; ok when the walk meets no granule twice and ends in a
\* terminal marker 0xC1..0xC9
RECURSIVE Follow(_, _, _)
Follow(ft, g, seen) ==
    IF g \in seen \/ g > MAX_GRANULE THEN [ok |-> FALSE, granules |-> seen]
    ELSE IF ft[g + 1] \in (LAST_MARK + 1)..LAST_MARK_MAX
    THEN [ok |-> TRUE, granules |-> seen \cup {g}]
    ELSE IF ft[g + 1] <= MAX_GRANULE THEN Follow(ft, ft[g + 1], seen \cup {g})
    ELSE [ok |-> FALSE, granules |-> seen \cup {g}]

\* C23: in every state reached from a formatted volume by inserts, deletes
\* and renames, the FAT chain of every active directory entry is acyclic,
\* ends in a terminal marker 0xC1..0xC9 and holds no free granule, and the
\* chains of two distinct active entries share no granule
C23_ChainsWellFormed ==
    \A i \in DOMAIN directory :
        /\ Follow(fat, directory[i].first_granule, {}).ok
        /\ \A j \in DOMAIN directory :
              i # j => Follow(fat, directory[i].first_granule, {}).granules
                         \cap Follow(fat, directory[j].first_granule, {}).granules = {}


\* C24: for every FAT content and every start granule 0..67 the chain walk
\* ends, and it visits no granule twice: next-pointers that form a cycle end
\* the walk instead of keeping it going forever
C24_WalkTerminates ==
    last.op = "chain"
        => /\ last.ok
           /\ \A i, j \in DOMAIN last.chain :
                 i # j => last.chain[i][1] # last.chain[j][1]


\* C25: after every insert, delete or rename on a handle, successful or
\* failed, the FAT of the handle is bytes 0..67 of track 17 sector 2 of its
\* buffer and its listing is what a scan of the directory sectors 3..11 of
\* the buffer gives, so a save followed by a mount of the saved file gives
\* the listing and the free count the handle had
C25_HandleBufferCoherence ==
    (Opened /\ last.op \in {"insert", "delete", "rename"})
        => /\ fat = read_fat(data, header)
           /\ directory = read_directory(data, header)
           /\ LET m == mount(data, header)
              IN /\ m.ok
                 /\ m.directory = directory
                 /\ FreeCount(m.fat) = FreeCount(fat)


\* C26: an insert or a delete, successful or failed, leaves every other
\* active file as it was: its directory slot and the bytes extracted for it
\* are the same after the call; on track 17 nothing changes but bytes 0..67
\* of the FAT sector and the one directory slot of the file inserted or
\* deleted
C26_OtherFilesUntouched ==
    [][(last'.op \in {"insert", "delete"})
        => LET x == IF last'.slot = <<>> THEN -1 ELSE SlotNumber(last'.slot)
               others == IF last'.op = "delete"
                         THEN ListedSlots(data, header) \ {x}
                         ELSE ListedSlots(data, header)
           IN /\ \A s \in others :
                    LET b == parse_directory_entry(SlotAt(data, header, s))
                    IN /\ SlotAt(data', header', s) = SlotAt(data, header, s)
                       /\ extract_file(data', header', fat', b)
                            = extract_file(data, header, fat, b)
              /\ \A s \in SlotIds \ {x} :
                    SlotAt(data', header', s) = SlotAt(data, header, s)
              /\ \A n \in (1..header.sectors_per_track)
                            \ (FAT_SECTOR..DIR_END_SECTOR) :
                    read_sector(data', header', DIR_TRACK, n)
                        = read_sector(data, header, DIR_TRACK, n)
              /\ \A i \in NUM_GRANULES..(SECTOR_SIZE - 1) :
                    SectorByte(read_sector(data', header', DIR_TRACK, FAT_SECTOR), i)
                        = SectorByte(read_sector(data, header, DIR_TRACK, FAT_SECTOR), i)
              /\ data'.hdr = data.hdr
              /\ data'.nsec = data.nsec]_vars

\* a file was deleted while the file of 2305 bytes inserted just before it
\* under another name stays on the volume
C26_Witness ==
    /\ last.op = "delete" /\ last.ok
    /\ prev.op = "insert" /\ prev.ok /\ prev.f = 3
    /\ prev.name # last.name
    /\ Len(directory) = 1
    /\ Len(extract_file(data, header, fat, directory[1])) = 10


\* the (track, sector) pairs of the 9 sectors of granule g
GranuleSectors(g) ==
    LET ts == granule_to_track_sector(g)
    IN {<<ts[1], ts[2] + k>> : k \in 0..(GRANULE_SECTORS - 1)}

\* C27: every granule g of 0..67 maps to track g/2 (g < 34) or g/2 + 1
\* (g >= 34) and start sector (g mod 2)*9 + 1; the 9-sector ranges of
\* distinct granules are disjoint, none lies on track 17 and all lie on
\* tracks 0..34 within sectors 1..18; so an insert on a formatted image of
\* 35 or more tracks writes inside the buffer and keeps its length (the
\* map is looked at on the first step and at every insert)
C27_GranuleMap ==
    [][/\ (last'.op \in {"insert"} \/ last.op = "init") =>
          /\ \A g \in 0..MAX_GRANULE :
                /\ granule_to_track_sector(g)
                     = <<IF g < 34 THEN g \div 2 ELSE (g \div 2) + 1, ((g % 2) * 9) + 1>>
                /\ \A ts \in GranuleSectors(g) :
                      ts[1] # DIR_TRACK /\ ts[1] \in 0..34 /\ ts[2] \in 1..18
                /\ Cardinality(GranuleSectors(g)) = 9
          /\ Cardinality(UNION {GranuleSectors(g) : g \in 0..MAX_GRANULE}) = 68 * 9
       /\ (last'.op = "insert") =>
             /\ DataLen(data') = DataLen(data)
             /\ data'.nsec = data.nsec
             /\ \A k \in DOMAIN data'.sec : k >= 0 /\ k < data.nsec
             /\ LET written ==
                        {SectorIndex(data, get_sector_offset(header, ts[1], ts[2])) :
                           ts \in UNION {GranuleSectors(last'.granules[i]) :
                                             i \in DOMAIN last'.granules}}
                        \cup {SectorIndex(data, get_sector_offset(header, DIR_TRACK, n)) :
                                 n \in FAT_SECTOR..DIR_END_SECTOR}
                IN \A k \in ((DOMAIN data'.sec) \cup (DOMAIN data.sec)) \ written :
                      /\ k \in DOMAIN data.sec
                      /\ k \in DOMAIN data'.sec
                      /\ data'.sec[k] = data.sec[k]]_vars

\* a file of 68 granules was inserted on a one-sided image of 35 tracks
\* without a header: the last sector of the buffer, sector 18 of track 34,
\* holds its last bytes
C27_Witness ==
    /\ last.op = "insert" /\ last.ok
    /\ Len(last.granules) = 68
    /\ data.hdr = <<>>
    /\ data.nsec = 35 * 18
    /\ (data.nsec - 1) \in DOMAIN data.sec
    /\ data.sec[data.nsec - 1].t = "data"


\* C28: in every state reached from a formatted volume by inserts, deletes
\* and renames no two active directory entries have the same NAME.EXT,
\* compared without regard to case: an insert or a rename that would give
\* a second entry an existing name is rejected
C28_NameUniqueness ==
    Opened =>
        LET dir == read_directory(data, header)
        IN \A i, j \in DOMAIN dir :
              i # j => Upper(full_name(dir[i])) # Upper(full_name(dir[j]))


\* the slots of the directory that hold an active entry
ActiveSlots(d, hd) == {s \in SlotIds : IsActive(SlotAt(d, hd, s))}

\* C29: in every state reached from a formatted volume by inserts and
\* deletes at most 68 directory entries are active, so at least 4 of the 72
\* slots are empty and no insert fails for a full directory: an insert that
\* fails for lack of room fails for lack of free granules
C29_DirectoryNeverFull ==
    Opened =>
        /\ Cardinality(ActiveSlots(data, header)) <= NUM_GRANULES
        /\ Cardinality(SlotIds \ ActiveSlots(data, header)) >= 4
        /\ (last.op = "insert" /\ ~last.ok /\ CanEncodeAscii(last.name))
              => last.why = "space"


\* C30: on every input that is not empty, with or without a preamble, a
\* terminator or a zero link, the line loop ends: the read offset grows on
\* every iteration and stays inside the input, and the lines decoded are at
\* most the 0x00 bytes of the input plus one
C30_Termination ==
    (last.op = "detokenize" /\ last.bytes # <<>>)
        => /\ last.ok
           /\ \A i \in DOMAIN last.lines :
                 /\ last.lines[i].offset >= 0
                 /\ last.lines[i].start > last.lines[i].offset
                 /\ last.lines[i].start <= Len(last.bytes)
                 /\ i < Len(last.lines)
                       => last.lines[i + 1].offset
                            > last.lines[i].start + Len(last.lines[i].line_bytes)
           /\ Len(last.lines)
                <= Cardinality({p \in DOMAIN last.bytes : last.bytes[p] = 0}) + 1

\* an input without a terminator at its end from which as many lines were
\* decoded as it holds 0x00 bytes, and one more
C30_Witness ==
    /\ last.op = "detokenize" /\ last.ok
    /\ Len(last.lines) >= 2
    /\ Len(last.lines)
         = Cardinality({p \in DOMAIN last.bytes : last.bytes[p] = 0}) + 1
    /\ last.lines[Len(last.lines)].start
         + Len(last.lines[Len(last.lines)].line_bytes) = Len(last.bytes)

====
